---- MODULE Spec2Model ----
(***************************************************************************)
(* Structure-format codec layer of SunPixel/SunConvert: the bit-packed     *)
(* palette-index codec, the selective streaming decoders of the dense      *)
(* variants, the offset/size bookkeeping, the chunk placement of           *)
(* GetChunks, the opcode-stream cursor, the segmented obfuscated writer    *)
(* and the record de-duplication of the sparse variants.                   *)
(*                                                                         *)
(* A 64-bit word is modelled as the set of its bit positions that are 1    *)
(* (TLC integers are 32 bits wide): OR is union, AND is intersection and a *)
(* shift moves the positions, dropping those that leave 0..63.             *)
(***************************************************************************)
EXTENDS Integers, Sequences, FiniteSets, TLC

VARIABLES
    \* ---- bit-packed codec (litematicBlockStateWriter / streamingLSBBitReader)
    entries,      \* the palette indices handed to WriteIndex, in order
    paletteSize,  \* len(paletteOrder) / len(l.palette)
    w,            \* the litematicBlockStateWriter
    longs,        \* the 64-bit words writeLong has emitted
    written,      \* how many entries have been passed to WriteIndex
    br,           \* the streamingLSBBitReader (with its position in longs)
    decoded,      \* the values pulled by next() so far
    cpc,          \* "encode" | "decode" | "done" | "failed" | "finished"
    fin,          \* what a Finish call was given and what it returned
    \* ---- a parsed document and the results of the queries made on it
    doc,          \* the document object (Schematic, MCStructure, Litematic, ...)
    req,          \* posList of the last GetChunks call
    res,          \* what the last GetChunks call returned
    full,         \* what a full sequential decode of the block array yields
    cnt,          \* what the last CountNonAirBlocks call returned
    \* ---- the other objects, one variable each
    box,          \* size / originalSize / offsetPos of a document
    rt,           \* a FromMCWorld -> FromFile round trip
    seg,          \* an IBImport output file and its open segment writer
    reg,          \* a FromMCWorld conversion of a region of a world
    conv,         \* a ToMCWorld conversion and the goroutines it has started
    fh,           \* the file and decompression handles of a read pass
    loop,         \* a command loop of BDX over a stream whose reads may fail
    trunc,        \* a read pass over a stream that ends before its declared end
    pal,          \* the palette cache of a document and the resolutions made through it
    flag,         \* a boolean flag of an IBImport command as it is decoded from JSON
    mcs           \* MCStructure.ToMCWorld: the blocks and block entities it saves

codecVars == <<entries, paletteSize, w, longs, written, br, decoded, cpc, fin>>
docVars == <<doc, req, res, full, cnt>>

vars == <<codecVars, docVars, box, rt, seg, reg, conv, fh, loop, trunc, pal, flag, mcs>>

Idle == [pc |-> "idle"]

IdleCodec ==
    /\ entries = <<>> /\ paletteSize = 0 /\ w = Idle /\ longs = <<>>
    /\ written = 0 /\ br = Idle /\ decoded = <<>> /\ cpc = "idle" /\ fin = Idle

IdleDoc == doc = Idle /\ req = <<>> /\ res = Idle /\ full = Idle /\ cnt = Idle

\* every object outside the set S of objects in use is left idle
IdleOutside(S) ==
    /\ IF "codec" \in S THEN TRUE ELSE IdleCodec
    /\ IF "doc" \in S THEN TRUE ELSE IdleDoc
    /\ IF "box" \in S THEN TRUE ELSE box = Idle
    /\ IF "rt" \in S THEN TRUE ELSE rt = Idle
    /\ IF "seg" \in S THEN TRUE ELSE seg = Idle
    /\ IF "reg" \in S THEN TRUE ELSE reg = Idle
    /\ IF "conv" \in S THEN TRUE ELSE conv = Idle
    /\ IF "fh" \in S THEN TRUE ELSE fh = Idle
    /\ IF "loop" \in S THEN TRUE ELSE loop = Idle
    /\ IF "trunc" \in S THEN TRUE ELSE trunc = Idle
    /\ IF "pal" \in S THEN TRUE ELSE pal = Idle
    /\ IF "flag" \in S THEN TRUE ELSE flag = Idle
    /\ IF "mcs" \in S THEN TRUE ELSE mcs = Idle

(***************************************************************************)
(* Bounds of the model                                                     *)
(***************************************************************************)
MaxEntries == 23

(***************************************************************************)
(* Words                                                                   *)
(***************************************************************************)
WordBits == 64

RECURSIVE Pow2(_)
Pow2(n) == IF n <= 0 THEN 1 ELSE 2 * Pow2(n - 1)

Min(a, b) == IF a <= b THEN a ELSE b
Max(a, b) == IF a >= b THEN a ELSE b

\* uint64(v) for a non-negative v below 2^31
U64(v) == {i \in 0..30 : (v \div Pow2(i)) % 2 = 1}

\* (uint64(1) << n) - 1
LowMask(n) == 0..(n - 1)

Shl(word, k) == {i + k : i \in word} \cap (0..(WordBits - 1))
Shr(word, k) == {i - k : i \in {j \in word : j >= k}}

RECURSIVE ToInt(_)
ToInt(word) ==
    IF word = {} THEN 0
    ELSE LET i == CHOOSE j \in word : TRUE
         IN Pow2(i) + ToInt(word \ {i})

\* int(math.Ceil(math.Log2(float64(p)))) for p >= 1
RECURSIVE CeilLog2From(_, _)
CeilLog2From(p, k) == IF Pow2(k) >= p THEN k ELSE CeilLog2From(p, k + 1)
CeilLog2(p) == CeilLog2From(p, 0)

BitsPerBlock(p) == IF CeilLog2(p) < 2 THEN 2 ELSE CeilLog2(p)

NumLongs(numBlocks, bits) == (numBlocks * bits + 63) \div 64

(***************************************************************************)
(* litematicBlockStateWriter                                               *)
(***************************************************************************)
newLitematicBlockStateWriter(bitsPerBlock) ==
    LET b == IF bitsPerBlock < 1 THEN 1 ELSE bitsPerBlock
    IN [bitsPerBlock |-> b, mask |-> LowMask(b), current |-> {},
        bitsFilled |-> 0, longCount |-> 0]

\* a flush that emits the word and leaves its bits in the accumulator
flushKeepCurrent(ws) ==
    IF ws.w.bitsFilled = 0 /\ ws.w.current = {} THEN ws
    ELSE [w   |-> [ws.w EXCEPT !.longCount = @ + 1, !.bitsFilled = 0],
          out |-> Append(ws.out, ws.w.current)]

\* ws is the writer together with the words emitted through writeLong
flush(ws) ==
    IF ws.w.bitsFilled = 0 /\ ws.w.current = {} THEN ws
    ELSE [w   |-> [ws.w EXCEPT !.longCount = @ + 1, !.current = {}, !.bitsFilled = 0],
          out |-> Append(ws.out, ws.w.current)]

RECURSIVE WriteLoop(_, _, _)
\* WriteLoop without "value >>= available" after the low part of a straddling
\* entry has been stored
WriteLoopNoShift(ws, value, remaining) ==
    IF remaining <= 0 THEN ws
    ELSE
      LET available == WordBits - ws.w.bitsFilled
      IN IF remaining <= available
         THEN LET ws2 == [ws EXCEPT
                            !.w.current = @ \cup Shl(value \cap LowMask(remaining), ws.w.bitsFilled),
                            !.w.bitsFilled = @ + remaining]
              IN IF ws2.w.bitsFilled = WordBits THEN flush(ws2) ELSE ws2
         ELSE LET ws2 == [ws EXCEPT
                            !.w.current = @ \cup Shl(value \cap LowMask(available), ws.w.bitsFilled)]
              IN WriteLoop(flush(ws2), value, remaining - available)

WriteLoop(ws, value, remaining) ==
    IF remaining <= 0 THEN ws
    ELSE
      LET ws1 == IF WordBits - ws.w.bitsFilled = 0 THEN flush(ws) ELSE ws
          available == IF WordBits - ws.w.bitsFilled = 0
                       THEN WordBits ELSE WordBits - ws.w.bitsFilled
      IN IF remaining <= available
         THEN LET chunk == value \cap LowMask(remaining)
                  ws2 == [ws1 EXCEPT
                            !.w.current = @ \cup Shl(chunk, ws1.w.bitsFilled),
                            !.w.bitsFilled = @ + remaining]
              IN IF ws2.w.bitsFilled = WordBits THEN flush(ws2) ELSE ws2
         ELSE LET chunk == value \cap LowMask(available)
                  ws2 == [ws1 EXCEPT
                            !.w.current = @ \cup Shl(chunk, ws1.w.bitsFilled)]
              IN WriteLoop(flush(ws2), Shr(value, available), remaining - available)

WriteIndex(ws, index) ==
    WriteLoop(ws, U64(index) \cap ws.w.mask, ws.w.bitsPerBlock)

\* a Finish that leaves a partly filled word unflushed
FinishNoFlush(ws, expectedLongs) ==
    [ws |-> ws, err |-> ws.w.longCount # expectedLongs]

\* Finish(expectedLongs): the flushed writer and whether it reports an error
Finish(ws, expectedLongs) ==
    LET ws1 == IF ws.w.bitsFilled > 0 THEN flush(ws) ELSE ws
    IN [ws |-> ws1, err |-> ws1.w.longCount # expectedLongs]

(***************************************************************************)
(* LitematicaBitArray                                                      *)
(***************************************************************************)
\* Get(index) over the words data holding size entries of bitsPerEntry bits
Get(data, size, bitsPerEntry, index) ==
    IF index < 0 \/ index >= size THEN {}
    ELSE
      LET startOffset == index * bitsPerEntry
          startArrayIndex == startOffset \div 64
          endArrayIndex == ((index + 1) * bitsPerEntry - 1) \div 64
          startBitOffset == startOffset % 64
      IN IF startArrayIndex = endArrayIndex
         THEN Shr(data[startArrayIndex + 1], startBitOffset) \cap LowMask(bitsPerEntry)
         ELSE (Shr(data[startArrayIndex + 1], startBitOffset)
                 \cup Shl(data[endArrayIndex + 1], 64 - startBitOffset))
              \cap LowMask(bitsPerEntry)

(***************************************************************************)
(* streamingLSBBitReader                                                   *)
(***************************************************************************)
newStreamingLSBBitReader(numLongs) ==
    [remain |-> numLongs, curr |-> {}, bitsLeft |-> 0, pos |-> 0]

\* readLong over the word stream src: [br, err]
readLong(r, src) ==
    IF r.remain <= 0
    THEN [br |-> [r EXCEPT !.curr = {}, !.bitsLeft = 0], err |-> TRUE]
    ELSE IF r.pos >= Len(src)
    THEN [br |-> r, err |-> TRUE]
    ELSE [br |-> [r EXCEPT !.curr = src[r.pos + 1], !.bitsLeft = WordBits,
                           !.remain = @ - 1, !.pos = @ + 1],
          err |-> FALSE]

RECURSIVE NextLoop(_, _, _, _, _)
NextLoop(r, src, n, val, have) ==
    IF have >= n THEN [br |-> r, val |-> val, err |-> FALSE]
    ELSE
      LET rl == IF r.bitsLeft = 0 THEN readLong(r, src) ELSE [br |-> r, err |-> FALSE]
          r1 == rl.br
          need == n - have
      IN IF rl.err THEN [br |-> r1, val |-> {}, err |-> TRUE]
         ELSE IF r1.bitsLeft >= need
         THEN NextLoop([r1 EXCEPT !.curr = Shr(@, need), !.bitsLeft = @ - need],
                       src, n, val \cup Shl(r1.curr \cap LowMask(need), have),
                       have + need)
         ELSE NextLoop([r1 EXCEPT !.curr = {}, !.bitsLeft = 0],
                       src, n, val \cup Shl(r1.curr \cap LowMask(r1.bitsLeft), have),
                       have + r1.bitsLeft)

\* next(n): [br, val, err]
next(r, src, n) ==
    IF n = 0 THEN [br |-> r, val |-> {}, err |-> FALSE]
    ELSE NextLoop(r, src, n, {}, 0)

(***************************************************************************)
(* Encoding a sequence and decoding it again                               *)
(***************************************************************************)
PaletteSizes == {1, 2, 3, 5, 8, 9, 17, 32}
Strides(p) == {0, 1, 2, p - 1}
EntryLens == {0, 1, 2, MaxEntries - 1, MaxEntries}

\* four indices of a palette of 16 blocks, 4 bits each
NibbleEntries == <<5, 10, 15, 0>>

Pattern(n, p, start, stride) == [i \in 1..n |-> (start + (i - 1) * stride) % p]

InitCodec ==
    /\ IdleOutside({"codec"})
    /\ \/ /\ paletteSize \in PaletteSizes
          /\ \E n \in EntryLens, start \in 0..(paletteSize - 1),
                stride \in Strides(paletteSize) :
                entries = Pattern(n, paletteSize, start, stride)
       \/ /\ paletteSize = 16
          /\ entries = NibbleEntries
    /\ w = newLitematicBlockStateWriter(BitsPerBlock(paletteSize))
    /\ longs = <<>>
    /\ written = 0
    /\ br = newStreamingLSBBitReader(0)
    /\ decoded = <<>>
    /\ cpc = "encode"
    /\ fin = Idle

EncodeEntry ==
    /\ cpc = "encode"
    /\ written < Len(entries)
    /\ LET ws == WriteIndex([w |-> w, out |-> longs], entries[written + 1])
       IN /\ w' = ws.w
          /\ longs' = ws.out
    /\ written' = written + 1
    /\ UNCHANGED <<entries, paletteSize, br, decoded, cpc, fin>>
    /\ UNCHANGED <<docVars, box, rt, seg, reg, conv, fh, loop, trunc, pal, flag, mcs>>

EncodeFinish ==
    /\ cpc = "encode"
    /\ written = Len(entries)
    /\ LET bits == BitsPerBlock(paletteSize)
           numLongs == NumLongs(Len(entries), bits)
           f == Finish([w |-> w, out |-> longs], numLongs)
       IN /\ w' = f.ws.w
          /\ longs' = f.ws.out
          /\ cpc' = IF f.err THEN "failed" ELSE "decode"
          /\ br' = newStreamingLSBBitReader(numLongs)
    /\ UNCHANGED <<entries, paletteSize, written, decoded, fin>>
    /\ UNCHANGED <<docVars, box, rt, seg, reg, conv, fh, loop, trunc, pal, flag, mcs>>

DecodeEntry ==
    /\ cpc = "decode"
    /\ Len(decoded) < Len(entries)
    /\ LET r == next(br, longs, BitsPerBlock(paletteSize))
       IN /\ br' = r.br
          /\ IF r.err
             THEN cpc' = "failed" /\ decoded' = decoded
             ELSE cpc' = cpc /\ decoded' = Append(decoded, ToInt(r.val))
    /\ UNCHANGED <<entries, paletteSize, w, longs, written, fin>>
    /\ UNCHANGED <<docVars, box, rt, seg, reg, conv, fh, loop, trunc, pal, flag, mcs>>

DecodeDone ==
    /\ cpc = "decode"
    /\ Len(decoded) = Len(entries)
    /\ cpc' = "done"
    /\ UNCHANGED <<entries, paletteSize, w, longs, written, br, decoded, fin>>
    /\ UNCHANGED <<docVars, box, rt, seg, reg, conv, fh, loop, trunc, pal, flag, mcs>>

NextCodec == EncodeEntry \/ EncodeFinish \/ DecodeEntry \/ DecodeDone

SpecCodec == InitCodec /\ [][NextCodec]_vars

\* C1: encoding any sequence of palette indices in [0, P) at
\* bitsPerEntry = max(2, ceil(log2 P)) and pulling bitsPerEntry-wide values
\* from the emitted words gives back exactly the sequence: neither phase
\* fails, every value decoded so far is the entry at its place, and a
\* finished decode holds the whole sequence.
C1_RoundTrip ==
    /\ cpc # "failed"
    /\ Len(decoded) <= Len(entries)
    /\ \A i \in 1..Len(decoded) : decoded[i] = entries[i]
    /\ cpc = "done" => decoded = entries

\* an entry that straddles a word boundary has been written and read back
C1_Witness ==
    /\ cpc = "done"
    /\ Len(longs) >= 2
    /\ (WordBits % BitsPerBlock(paletteSize)) # 0
    /\ \E i \in 1..Len(entries) : entries[i] # 0 /\ entries[i] = decoded[i]
          /\ ((i - 1) * BitsPerBlock(paletteSize)) \div WordBits
               # (i * BitsPerBlock(paletteSize) - 1) \div WordBits

(***************************************************************************)
(* Size, original size and offset of a document                            *)
(***************************************************************************)
Abs(v) == IF v < 0 THEN -v ELSE v

SizeOf(wd, h, l) == [Width |-> wd, Height |-> h, Length |-> l]
OffsetOf(x, y, z) == [X |-> x, Y |-> y, Z |-> z]

\* SetOffsetPos that grows the current size instead of the original one
SetOffsetPosGrowing(d, offset) ==
    [d EXCEPT !.offsetPos = offset,
              !.size = SizeOf(d.size.Width + Abs(offset.X),
                              d.size.Height + Abs(offset.Y),
                              d.size.Length + Abs(offset.Z))]

\* SetOffsetPos of every variant: the offset is stored and the size becomes
\* the original size plus the absolute offset on each axis
SetOffsetPos(d, offset) ==
    [d EXCEPT !.offsetPos = offset,
              !.size = SizeOf(d.originalSize.Width + Abs(offset.X),
                              d.originalSize.Height + Abs(offset.Y),
                              d.originalSize.Length + Abs(offset.Z))]

BoxDims == {1, 5, 10}
BoxOffsets == {-4, -1, 0, 3}

InitOffset ==
    /\ IdleOutside({"box"})
    /\ box = [pc |-> "new", size |-> SizeOf(0, 0, 0), originalSize |-> SizeOf(0, 0, 0),
              offsetPos |-> OffsetOf(0, 0, 0), parsed |-> SizeOf(0, 0, 0)]

\* FromFile: the Width/Height/Length read from the file become both sizes
BoxFromFile ==
    /\ box.pc = "new"
    /\ \E wd \in BoxDims, h \in BoxDims, l \in BoxDims :
          box' = [box EXCEPT !.pc = "parsed", !.size = SizeOf(wd, h, l),
                             !.originalSize = SizeOf(wd, h, l),
                             !.parsed = SizeOf(wd, h, l)]
    /\ UNCHANGED <<codecVars, docVars, rt, seg, reg, conv, fh, loop, trunc, pal, flag, mcs>>

BoxSetOffsetPos ==
    /\ box.pc = "parsed"
    /\ \E x \in BoxOffsets, y \in BoxOffsets, z \in BoxOffsets :
          box' = SetOffsetPos(box, OffsetOf(x, y, z))
    /\ UNCHANGED <<codecVars, docVars, rt, seg, reg, conv, fh, loop, trunc, pal, flag, mcs>>

NextOffset == BoxFromFile \/ BoxSetOffsetPos

SpecOffset == InitOffset /\ [][NextOffset]_vars

\* C3: once a document is parsed, after any sequence of SetOffsetPos calls
\* its size is the original size plus the absolute value of the current
\* offset on each axis, and the original size is still the parsed one.
C3_SizeIsOriginalPlusAbsOffset ==
    box.pc = "parsed" =>
        /\ box.size.Width = box.originalSize.Width + Abs(box.offsetPos.X)
        /\ box.size.Height = box.originalSize.Height + Abs(box.offsetPos.Y)
        /\ box.size.Length = box.originalSize.Length + Abs(box.offsetPos.Z)
        /\ box.originalSize = box.parsed

\* originalSize {10,5,10} with offset {3,0,-4} reports size {13,5,14}
C3_Witness ==
    /\ box.pc = "parsed"
    /\ box.originalSize = SizeOf(10, 5, 10)
    /\ box.offsetPos = OffsetOf(3, 0, -4)
    /\ box.size = SizeOf(13, 5, 14)

(***************************************************************************)
(* Arithmetic of the host language and of the chunk grid                   *)
(***************************************************************************)
\* "/" and "%" on ints truncate toward zero (d > 0)
GoDiv(a, d) == IF a >= 0 THEN a \div d ELSE -((-a) \div d)
GoRem(a, d) == a - d * GoDiv(a, d)
\* uint8(v): the low eight bits
Uint8(v) == v % 256

\* floorDiv / floorMod of the coordinate model (d > 0)
floorDiv(v, d) == v \div d
floorMod(v, d) == v % d

ChunkSide == 16
YShift == 64

AirRuntimeID == 1
UnknownBlockRuntimeID == 999

RECURSIVE Repeat(_, _)
Repeat(v, n) == IF n <= 0 THEN <<>> ELSE <<v>> \o Repeat(v, n - 1)

RECURSIVE Concat(_)
Concat(ss) == IF ss = <<>> THEN <<>> ELSE Head(ss) \o Concat(Tail(ss))

RECURSIVE SetToSeq(_)
SetToSeq(S) ==
    IF S = {} THEN <<>>
    ELSE LET e == CHOOSE x \in S : \A y \in S : x[1] < y[1] \/ (x[1] = y[1] /\ x[2] <= y[2])
         IN <<e>> \o SetToSeq(S \ {e})

Range(s) == {s[i] : i \in 1..Len(s)}

\* slices.Sort of the gathered indices: mult[i] copies of each i, ascending
RECURSIVE SortedIndices(_, _, _)
SortedIndices(mult, i, n) ==
    IF i >= n THEN <<>> ELSE Repeat(i, mult[i]) \o SortedIndices(mult, i + 1, n)

(***************************************************************************)
(* Forward-only byte streams (io.Reader over a reopened file)              *)
(***************************************************************************)
NewReader(s) == [s |-> s, pos |-> 0]

\* io.CopyN(io.Discard, r, n): a count n <= 0 copies nothing and is no error
CopyN(rd, n) ==
    IF n <= 0 THEN [rd |-> rd, err |-> FALSE]
    ELSE IF rd.pos + n <= Len(rd.s)
    THEN [rd |-> [rd EXCEPT !.pos = @ + n], err |-> FALSE]
    ELSE [rd |-> [rd EXCEPT !.pos = Len(rd.s)], err |-> TRUE]

\* io.ReadFull of one byte
ReadByte(rd) ==
    IF rd.pos < Len(rd.s)
    THEN [rd |-> [rd EXCEPT !.pos = @ + 1], b |-> rd.s[rd.pos + 1], err |-> FALSE]
    ELSE [rd |-> rd, b |-> 0, err |-> TRUE]

(***************************************************************************)
(* The tagged-document envelope                                            *)
(***************************************************************************)
Int16BE(v) == <<(v \div 256) % 256, v % 256>>
Int32BE(v) == <<(v \div 16777216) % 256, (v \div 65536) % 256, (v \div 256) % 256, v % 256>>
\* little-endian int32, two's complement
Int32LE(v) == IF v >= 0 THEN <<v % 256, (v \div 256) % 256, (v \div 65536) % 256, (v \div 16777216) % 256>>
              ELSE <<v % 256, (v \div 256) % 256, (v \div 65536) % 256, 256 + (v \div 16777216)>>
FromInt32LE(b) == b[1] + 256 * b[2] + 65536 * b[3]
                  + 16777216 * (IF b[4] >= 128 THEN b[4] - 256 ELSE b[4])

NameBytes(name) ==
    CASE name = "Schematic" -> <<83, 99, 104, 101, 109, 97, 116, 105, 99>>
      [] name = "Width"     -> <<87, 105, 100, 116, 104>>
      [] name = "Height"    -> <<72, 101, 105, 103, 104, 116>>
      [] name = "Length"    -> <<76, 101, 110, 103, 116, 104>>
      [] name = "Blocks"    -> <<66, 108, 111, 99, 107, 115>>
      [] name = "Data"      -> <<68, 97, 116, 97>>
      [] name = "Materials" -> <<77, 97, 116, 101, 114, 105, 97, 108, 115>>
      [] name = "Alpha"     -> <<65, 108, 112, 104, 97>>
      [] OTHER              -> <<>>

TagTypeId(type) ==
    CASE type = "end" -> 0 [] type = "short" -> 2 [] type = "bytes" -> 7
      [] type = "string" -> 8 [] type = "compound" -> 10

\* the value of a tag as written: a byte array is its int32 length and then
\* its bytes; a compound's children follow as tags of their own
TagValueBytes(t) ==
    CASE t.type = "short" -> Int16BE(t.value)
      [] t.type = "bytes" -> Int32BE(Len(t.value)) \o t.value
      [] t.type = "string" -> Int16BE(Len(NameBytes(t.value))) \o NameBytes(t.value)
      [] OTHER -> <<>>

\* type id, name length, name: what ReadTag consumes
TagHeaderBytes(t) ==
    IF t.type = "end" THEN <<0>>
    ELSE <<TagTypeId(t.type)>> \o Int16BE(Len(NameBytes(t.name))) \o NameBytes(t.name)

TagBytes(t) == TagHeaderBytes(t) \o TagValueBytes(t)

StreamOf(tags) == Concat([k \in 1..Len(tags) |-> TagBytes(tags[k])])

Tag(type, name, value) == [type |-> type, name |-> name, value |-> value]

(***************************************************************************)
(* Schematic                                                               *)
(***************************************************************************)
\* the tags of a schematic file; FromMCWorld writes Blocks before Data
SchematicTags(wd, h, l, blocks, data, blocksFirst) ==
    <<Tag("compound", "Schematic", <<>>), Tag("short", "Length", l),
      Tag("short", "Height", h), Tag("short", "Width", wd)>>
    \o (IF blocksFirst
        THEN <<Tag("bytes", "Blocks", blocks), Tag("bytes", "Data", data)>>
        ELSE <<Tag("bytes", "Data", data), Tag("bytes", "Blocks", blocks)>>)
    \o <<Tag("end", "", <<>>)>>

NewSchematic ==
    [variant |-> "Schematic", pc |-> "new", stream |-> <<>>,
     BlocksTagGzipOffset |-> 0, DataTagGzipOffset |-> 0,
     size |-> SizeOf(0, 0, 0), originalSize |-> SizeOf(0, 0, 0),
     offsetPos |-> OffsetOf(0, 0, 0)]

\* the tag loop of FromFile: off is GetOffset() before ReadTag of tags[k];
\* the offset recorded for Blocks and Data is the one right after ReadTag,
\* where the value of the tag starts
RECURSIVE SchematicScan(_, _, _, _)
SchematicScan(tags, k, off, d) ==
    IF k > Len(tags) \/ tags[k].type = "end" THEN d
    ELSE
      LET t == tags[k]
          valueAt == off + Len(TagHeaderBytes(t))
          d1 == CASE t.name = "Width" ->
                       [d EXCEPT !.size.Width = t.value, !.originalSize.Width = t.value]
                  [] t.name = "Height" ->
                       [d EXCEPT !.size.Height = t.value, !.originalSize.Height = t.value]
                  [] t.name = "Length" ->
                       [d EXCEPT !.size.Length = t.value, !.originalSize.Length = t.value]
                  [] t.name = "Blocks" -> [d EXCEPT !.BlocksTagGzipOffset = valueAt]
                  [] t.name = "Data" -> [d EXCEPT !.DataTagGzipOffset = valueAt]
                  [] OTHER -> d
      IN SchematicScan(tags, k + 1, off + Len(TagBytes(t)), d1)

SchematicFromFile(tags) ==
    LET root == tags[1]
        d == SchematicScan(tags, 2, Len(TagBytes(root)),
                           [NewSchematic EXCEPT !.stream = StreamOf(tags)])
    IN IF d.BlocksTagGzipOffset = 0 \/ d.DataTagGzipOffset = 0
       THEN [d EXCEPT !.pc = "invalid"]
       ELSE [d EXCEPT !.pc = "parsed"]

\* blocks.SchematicToRuntimeID and the two registry lookups that follow it
SchematicRuntimeID(blockIndex, dataValue) ==
    IF blockIndex = 0 THEN AirRuntimeID
    ELSE AirRuntimeID + 16 * blockIndex + (dataValue % 16)

\* how often the gathering loops append index: once for every entry of
\* posList whose chunk holds the offset-applied position
SchematicIndexCount(d, posList, index) ==
    LET x == index % d.originalSize.Width
        z == (index \div d.originalSize.Width) % d.originalSize.Length
        y == (index \div d.originalSize.Width) \div d.originalSize.Length
        newX == x + d.offsetPos.X
        newY == y + d.offsetPos.Y
        newZ == z + d.offsetPos.Z
    IN IF newY < 0 \/ newY >= d.size.Height THEN 0
       ELSE Cardinality({k \in 1..Len(posList) :
               /\ newX >= posList[k][1] * ChunkSide
               /\ newX < posList[k][1] * ChunkSide + ChunkSide
               /\ newZ >= posList[k][2] * ChunkSide
               /\ newZ < posList[k][2] * ChunkSide + ChunkSide})

Volume(size) == size.Width * size.Height * size.Length

SchematicAllIndices(d, posList) ==
    SortedIndices([i \in 0..(Volume(d.originalSize) - 1) |-> SchematicIndexCount(d, posList, i)],
                  0, Volume(d.originalSize))

\* the same pass with lastIndex left at the index just read
RECURSIVE SchematicReadAtNoAdvance(_, _, _, _, _)
SchematicReadAtNoAdvance(rd, allIndices, k, lastIndex, vals) ==
    IF k > Len(allIndices) THEN [rd |-> rd, vals |-> vals, err |-> FALSE]
    ELSE
      LET index == allIndices[k]
          sk == CopyN(rd, index - lastIndex)
          rb == ReadByte(sk.rd)
      IN IF sk.err \/ rb.err THEN [rd |-> rb.rd, vals |-> vals, err |-> TRUE]
         ELSE SchematicReadAtNoAdvance(rb.rd, allIndices, k + 1, index, (index :> rb.b) @@ vals)

\* one pass "skip index-lastIndex bytes, read one" over the sorted indices
RECURSIVE SchematicReadAt(_, _, _, _, _)
SchematicReadAt(rd, allIndices, k, lastIndex, vals) ==
    IF k > Len(allIndices) THEN [rd |-> rd, vals |-> vals, err |-> FALSE]
    ELSE
      LET index == allIndices[k]
          sk == CopyN(rd, index - lastIndex)
          rb == ReadByte(sk.rd)
      IN IF sk.err \/ rb.err THEN [rd |-> rb.rd, vals |-> vals, err |-> TRUE]
         ELSE SchematicReadAt(rb.rd, allIndices, k + 1, index + 1, (index :> rb.b) @@ vals)

\* the SetBlock call made for the block read at index, if its chunk is a key
SchematicPlace(d, keys, index, blockIndex, dataValue) ==
    LET x == index % d.originalSize.Width
        z == (index \div d.originalSize.Width) % d.originalSize.Length
        y == (index \div d.originalSize.Width) \div d.originalSize.Length
        newX == x + d.offsetPos.X
        newY == y + d.offsetPos.Y
        newZ == z + d.offsetPos.Z
        cp == <<GoDiv(newX, ChunkSide), GoDiv(newZ, ChunkSide)>>
    IN IF cp \notin keys THEN <<>>
       ELSE <<[chunk |-> cp, x |-> Uint8(GoRem(newX, ChunkSide)), y |-> newY - YShift,
               z |-> Uint8(GoRem(newZ, ChunkSide)),
               id |-> SchematicRuntimeID(blockIndex, dataValue),
               world |-> <<newX, newY, newZ>>, index |-> index]>>

\* the Blocks pass of the branch that reads Data first: read and place at once
RECURSIVE SchematicReadPlace(_, _, _, _, _, _, _, _, _)
SchematicReadPlace(d, keys, rd, allIndices, k, lastIndex, datas, vals, placed) ==
    IF k > Len(allIndices) THEN [vals |-> vals, placed |-> placed, err |-> FALSE]
    ELSE
      LET index == allIndices[k]
          sk == CopyN(rd, index - lastIndex)
          rb == ReadByte(sk.rd)
      IN IF sk.err \/ rb.err THEN [vals |-> vals, placed |-> placed, err |-> TRUE]
         ELSE SchematicReadPlace(d, keys, rb.rd, allIndices, k + 1, index + 1, datas,
                                 (index :> rb.b) @@ vals,
                                 placed \o SchematicPlace(d, keys, index, rb.b, datas[index]))

Failed == [err |-> TRUE, keys |-> {}, placed |-> <<>>, vals |-> <<>>, dvals |-> <<>>]

SchematicGetChunks(d, posList) ==
    LET keys == Range(posList)
        allIndices == SchematicAllIndices(d, posList)
        none == [err |-> FALSE, keys |-> keys, placed |-> <<>>, vals |-> <<>>, dvals |-> <<>>]
    IN IF Len(allIndices) = 0 THEN none
       ELSE IF d.DataTagGzipOffset < d.BlocksTagGzipOffset
       THEN LET s1 == CopyN(NewReader(d.stream), d.DataTagGzipOffset)
                dp == SchematicReadAt(s1.rd, allIndices, 1, 0, <<>>)
                s2 == CopyN(dp.rd, d.BlocksTagGzipOffset - dp.rd.pos)
                bp == SchematicReadPlace(d, keys, s2.rd, allIndices, 1, 0, dp.vals, <<>>, <<>>)
            IN IF s1.err \/ dp.err \/ s2.err \/ bp.err THEN Failed
               ELSE [none EXCEPT !.placed = bp.placed, !.vals = bp.vals, !.dvals = dp.vals]
       ELSE IF d.DataTagGzipOffset > d.BlocksTagGzipOffset
       THEN LET s1 == CopyN(NewReader(d.stream), d.BlocksTagGzipOffset)
                bp == SchematicReadAt(s1.rd, allIndices, 1, 0, <<>>)
                s2 == CopyN(NewReader(d.stream), d.DataTagGzipOffset)
                dp == SchematicReadAt(s2.rd, allIndices, 1, 0, <<>>)
            IN IF s1.err \/ bp.err \/ s2.err \/ dp.err THEN Failed
               ELSE [none EXCEPT
                       !.placed = Concat([k \in 1..Len(allIndices) |->
                                    SchematicPlace(d, keys, allIndices[k],
                                                   bp.vals[allIndices[k]], dp.vals[allIndices[k]])]),
                       !.vals = bp.vals, !.dvals = dp.vals]
       ELSE none

\* the sequential read of ToMCWorld: the volume bytes that follow each offset
SchematicReadAll(d) ==
    LET n == Volume(d.originalSize)
    IN IF d.BlocksTagGzipOffset + n > Len(d.stream) \/ d.DataTagGzipOffset + n > Len(d.stream)
       THEN [err |-> TRUE, vals |-> <<>>, dvals |-> <<>>]
       ELSE [err |-> FALSE,
             vals |-> [i \in 1..n |-> d.stream[d.BlocksTagGzipOffset + i]],
             dvals |-> [i \in 1..n |-> d.stream[d.DataTagGzipOffset + i]]]

\* CountNonAirBlocks: the non-zero bytes among the volume bytes at the offset
SchematicCountNonAirBlocks(d) ==
    LET n == Volume(d.originalSize)
    IN IF d.BlocksTagGzipOffset + n > Len(d.stream) THEN [err |-> TRUE, n |-> 0]
       ELSE [err |-> FALSE,
             n |-> Cardinality({i \in 1..n : d.stream[d.BlocksTagGzipOffset + i] # 0})]

(***************************************************************************)
(* MCStructure                                                             *)
(***************************************************************************)
\* the file up to the payload of block_indices: the root compound header and
\* the header of the outer list (element type TAG_List, length 2)
MCStructureHead == <<10, 0, 0, 9>> \o Int32LE(2)

\* one inner list: element type TAG_Int, length, elements
Int32List(values) ==
    <<3>> \o Int32LE(Len(values)) \o Concat([k \in 1..Len(values) |-> Int32LE(values[k])])

\* FromFile: the sizes, the offset of the payload of block_indices and the
\* palette, whose entries the registry resolves or replaces by the unknown id
MCStructureFromFile(wd, h, l, layer0, palette) ==
    [variant |-> "MCStructure", pc |-> "parsed",
     stream |-> MCStructureHead \o Int32List(layer0)
                \o Int32List([k \in 1..Len(layer0) |-> -1]),
     blockIndexTagOffset |-> Len(MCStructureHead),
     palette |-> palette,
     size |-> SizeOf(wd, h, l), originalSize |-> SizeOf(wd, h, l),
     offsetPos |-> OffsetOf(0, 0, 0)]

\* ReadTagInt32 of the little-endian reader
ReadInt32LE(rd) ==
    IF rd.pos + 4 <= Len(rd.s)
    THEN [rd |-> [rd EXCEPT !.pos = @ + 4],
          v |-> FromInt32LE(SubSeq(rd.s, rd.pos + 1, rd.pos + 4)), err |-> FALSE]
    ELSE [rd |-> [rd EXCEPT !.pos = Len(rd.s)], v |-> 0, err |-> TRUE]

MCStructureIndexCount(d, posList, index) ==
    LET z == index % d.originalSize.Length
        y == (index \div d.originalSize.Length) % d.originalSize.Height
        x == (index \div d.originalSize.Length) \div d.originalSize.Height
        newX == x + d.offsetPos.X
        newY == y + d.offsetPos.Y
        newZ == z + d.offsetPos.Z
    IN IF newY < 0 \/ newY >= d.size.Height THEN 0
       ELSE Cardinality({k \in 1..Len(posList) :
               /\ newX >= posList[k][1] * ChunkSide
               /\ newX < posList[k][1] * ChunkSide + ChunkSide
               /\ newZ >= posList[k][2] * ChunkSide
               /\ newZ < posList[k][2] * ChunkSide + ChunkSide})

MCStructureAllIndices(d, posList) ==
    SortedIndices([i \in 0..(Volume(d.originalSize) - 1) |-> MCStructureIndexCount(d, posList, i)],
                  0, Volume(d.originalSize))

MCStructurePlace(d, keys, idx, val) ==
    LET z == idx % d.originalSize.Length
        y == (idx \div d.originalSize.Length) % d.originalSize.Height
        x == (idx \div d.originalSize.Length) \div d.originalSize.Height
        newX == x + d.offsetPos.X
        newY == y + d.offsetPos.Y
        newZ == z + d.offsetPos.Z
        cp == <<GoDiv(newX, ChunkSide), GoDiv(newZ, ChunkSide)>>
    IN IF val = -1 \/ cp \notin keys THEN <<>>
       ELSE <<[chunk |-> cp, x |-> Uint8(GoRem(newX, ChunkSide)), y |-> newY - YShift,
               z |-> Uint8(GoRem(newZ, ChunkSide)),
               id |-> IF val \in DOMAIN d.palette THEN d.palette[val]
                      ELSE UnknownBlockRuntimeID,
               world |-> <<newX, newY, newZ>>, index |-> idx]>>

\* the loop over idx and nextNeeded
RECURSIVE MCStructureLoop(_, _, _, _, _, _, _, _)
MCStructureLoop(d, keys, rd, allIndices, total, idx, nextNeeded, acc) ==
    IF ~(idx < total /\ nextNeeded < Len(allIndices)) THEN acc
    ELSE
      LET target == allIndices[nextNeeded + 1]
      IN IF target < idx
         THEN MCStructureLoop(d, keys, rd, allIndices, total, idx, nextNeeded + 1, acc)
         ELSE
           LET skipCount == target - idx
               sk == IF skipCount > 0 THEN CopyN(rd, 4 * skipCount)
                     ELSE [rd |-> rd, err |-> FALSE]
               rv == ReadInt32LE(sk.rd)
           IN IF sk.err \/ rv.err THEN Failed
              ELSE MCStructureLoop(d, keys, rv.rd, allIndices, total, target + 1,
                                   nextNeeded + 1,
                                   [acc EXCEPT
                                      !.placed = @ \o MCStructurePlace(d, keys, target, rv.v),
                                      !.vals = (target :> rv.v) @@ @])

MCStructureGetChunks(d, posList) ==
    LET keys == Range(posList)
        allIndices == MCStructureAllIndices(d, posList)
        none == [err |-> FALSE, keys |-> keys, placed |-> <<>>, vals |-> <<>>, dvals |-> <<>>]
        s0 == CopyN(NewReader(d.stream), d.blockIndexTagOffset)
        ty == ReadByte(s0.rd)
        ln == ReadInt32LE(ty.rd)
    IN IF Len(allIndices) = 0 THEN none
       ELSE IF s0.err \/ ty.err \/ ty.b # 3 \/ ln.err THEN Failed
       ELSE MCStructureLoop(d, keys, ln.rd, allIndices, Max(ln.v, 0), 0, 0, none)

\* the sequential read of every element of the inner list
RECURSIVE ReadInt32s(_, _)
ReadInt32s(rd, n) ==
    IF n <= 0 THEN [err |-> FALSE, vals |-> <<>>]
    ELSE LET rv == ReadInt32LE(rd)
             rest == ReadInt32s(rv.rd, n - 1)
         IN IF rv.err \/ rest.err THEN [err |-> TRUE, vals |-> <<>>]
            ELSE [err |-> FALSE, vals |-> <<rv.v>> \o rest.vals]

MCStructureReadAll(d) ==
    LET s0 == CopyN(NewReader(d.stream), d.blockIndexTagOffset)
        ty == ReadByte(s0.rd)
        ln == ReadInt32LE(ty.rd)
    IN IF s0.err \/ ty.err \/ ty.b # 3 \/ ln.err THEN [err |-> TRUE, vals |-> <<>>]
       ELSE ReadInt32s(ln.rd, ln.v)

\* CountNonAirBlocks with airIndex one of the palette keys that hold air
\* (the first the map iteration meets); without such a key it is the volume
MCStructureCountNonAirBlocks(d, airIndex) ==
    LET all == MCStructureReadAll(d)
    IN IF \A k \in DOMAIN d.palette : d.palette[k] # AirRuntimeID
       THEN [err |-> FALSE, n |-> Volume(d.originalSize)]
       ELSE IF all.err THEN [err |-> TRUE, n |-> 0]
       ELSE [err |-> FALSE,
             n |-> Cardinality({i \in 1..Len(all.vals) : all.vals[i] # airIndex})]

(***************************************************************************)
(* Litematic                                                               *)
(***************************************************************************)
\* the BlockStates long array of a region holding the given palette indices
RECURSIVE WriteAll(_, _, _)
WriteAll(ws, indices, k) ==
    IF k > Len(indices) THEN ws ELSE WriteAll(WriteIndex(ws, indices[k]), indices, k + 1)

PackEntries(indices, bits) ==
    Finish(WriteAll([w |-> newLitematicBlockStateWriter(bits), out |-> <<>>], indices, 1),
           NumLongs(Len(indices), bits)).ws.out

\* FromFile: Size as stored (it may be negative), size and originalSize its
\* absolute value; longs is the array found at blockStatesOffset and numLongs
\* the length the stream declares in front of it
LitematicFromFile(wd, h, l, indices, palette) ==
    [variant |-> "Litematic", pc |-> "parsed",
     longs |-> PackEntries(indices, BitsPerBlock(Len(palette))),
     numLongs |-> NumLongs(Len(indices), BitsPerBlock(Len(palette))),
     palette |-> palette,
     Size |-> SizeOf(wd, h, l),
     size |-> SizeOf(Abs(wd), Abs(h), Abs(l)),
     originalSize |-> SizeOf(Abs(wd), Abs(h), Abs(l)),
     offsetPos |-> OffsetOf(0, 0, 0)]

\* what the loop body does with the palette index pi decoded for blockIndex
LitematicPlace(d, keys, blockIndex, pi) ==
    LET absWidth == Abs(d.Size.Width)
        layerSize == absWidth * Abs(d.Size.Length)
        y == blockIndex \div layerSize
        z == (blockIndex % layerSize) \div absWidth
        x == (blockIndex % layerSize) % absWidth
        wx == x + d.offsetPos.X
        wy == y + d.offsetPos.Y
        wz == z + d.offsetPos.Z
        \* wx >> 4 is an arithmetic shift
        cp == <<wx \div 16, wz \div 16>>
    IN IF pi >= Len(d.palette) \/ d.palette[pi + 1] = AirRuntimeID \/ cp \notin keys
       THEN <<>>
       ELSE <<[chunk |-> cp, x |-> Uint8(GoRem(wx, ChunkSide)), y |-> wy - YShift,
               z |-> Uint8(GoRem(wz, ChunkSide)), id |-> d.palette[pi + 1],
               world |-> <<wx, wy, wz>>, index |-> blockIndex, val |-> pi]>>

RECURSIVE LitematicLoop(_, _, _, _, _, _)
LitematicLoop(d, keys, r, blockIndex, numBlocks, placed) ==
    IF blockIndex >= numBlocks THEN placed
    ELSE LET nx == next(r, d.longs, BitsPerBlock(Len(d.palette)))
         IN IF nx.err THEN placed
            ELSE LitematicLoop(d, keys, nx.br, blockIndex + 1, numBlocks,
                               placed \o LitematicPlace(d, keys, blockIndex, ToInt(nx.val)))

\* GetChunks and parseBlockStatesStreamFromReader
LitematicGetChunks(d, posList) ==
    LET keys == Range(posList)
        placed == LitematicLoop(d, keys, newStreamingLSBBitReader(d.numLongs), 0,
                                Volume(d.originalSize), <<>>)
    IN IF Len(d.palette) = 0 THEN Failed
       ELSE [err |-> FALSE, keys |-> keys, placed |-> placed,
             vals |-> [i \in {placed[k].index : k \in 1..Len(placed)} |->
                         placed[CHOOSE k \in 1..Len(placed) : placed[k].index = i].val],
             dvals |-> <<>>]

\* LitematicaBitArray.Get
BitArrayGet(data, size, bitsPerEntry, index) ==
    IF index < 0 \/ index >= size THEN {}
    ELSE
      LET startOffset == index * bitsPerEntry
          startArrayIndex == startOffset \div 64
          endArrayIndex == ((index + 1) * bitsPerEntry - 1) \div 64
          startBitOffset == startOffset % 64
      IN IF startArrayIndex = endArrayIndex
         THEN Shr(data[startArrayIndex + 1], startBitOffset) \cap LowMask(bitsPerEntry)
         ELSE (Shr(data[startArrayIndex + 1], startBitOffset)
               \cup Shl(data[endArrayIndex + 1], 64 - startBitOffset))
              \cap LowMask(bitsPerEntry)

\* the full decode: Get(i) for every entry of the array
LitematicReadAll(d) ==
    [err |-> FALSE,
     vals |-> [i \in 1..Volume(d.originalSize) |->
                 ToInt(BitArrayGet(d.longs, Volume(d.originalSize),
                                   BitsPerBlock(Len(d.palette)), i - 1))]]

\* CountNonAirBlocks: the entries pulled by next() that differ from airIndex
RECURSIVE LitematicCountLoop(_, _, _, _, _)
LitematicCountLoop(d, r, left, airIndex, n) ==
    IF left <= 0 THEN [err |-> FALSE, n |-> n]
    ELSE LET nx == next(r, d.longs, BitsPerBlock(Len(d.palette)))
         IN IF nx.err THEN [err |-> TRUE, n |-> 0]
            ELSE LitematicCountLoop(d, nx.br, left - 1, airIndex,
                                    IF ToInt(nx.val) = airIndex THEN n ELSE n + 1)

LitematicCountNonAirBlocks(d, airIndex) ==
    IF \A k \in 1..Len(d.palette) : d.palette[k] # AirRuntimeID
    THEN [err |-> FALSE, n |-> Volume(d.originalSize)]
    ELSE LitematicCountLoop(d, newStreamingLSBBitReader(d.numLongs),
                            Volume(d.originalSize), airIndex, 0)

(***************************************************************************)
(* BDX                                                                     *)
(***************************************************************************)
\* the registry lookups by block name: 0 when the name is not found
LegacyBlockToRuntimeID(name, data) ==
    CASE name = "air" -> AirRuntimeID
      [] name = "stone" -> AirRuntimeID + 16 + (data % 16)
      [] name = "glass" -> AirRuntimeID + 32 + (data % 16)
      [] OTHER -> 0

Cmd(op, value) == [op |-> op, Value |-> value]

advancePos(cmd, pos) ==
    CASE cmd.op \in {"AddXValue"} -> [pos EXCEPT ![1] = @ + 1]
      [] cmd.op \in {"AddYValue"} -> [pos EXCEPT ![2] = @ + 1]
      [] cmd.op \in {"AddZValue", "AddZValue0"} -> [pos EXCEPT ![3] = @ + 1]
      [] cmd.op \in {"AddInt8XValue", "AddInt16XValue", "AddInt32XValue"} ->
            [pos EXCEPT ![1] = @ + cmd.Value]
      [] cmd.op \in {"AddInt8YValue", "AddInt16YValue", "AddInt32YValue"} ->
            [pos EXCEPT ![2] = @ + cmd.Value]
      [] cmd.op \in {"AddInt8ZValue", "AddInt16ZValue", "AddInt16ZValue0",
                     "AddInt32ZValue", "AddInt32ZValue0"} ->
            [pos EXCEPT ![3] = @ + cmd.Value]
      [] cmd.op \in {"SubtractXValue"} -> [pos EXCEPT ![1] = @ - 1]
      [] cmd.op \in {"SubtractYValue"} -> [pos EXCEPT ![2] = @ - 1]
      [] cmd.op \in {"SubtractZValue"} -> [pos EXCEPT ![3] = @ - 1]
      [] OTHER -> pos

bdxFloorDiv(value, divisor) ==
    IF divisor = 0 THEN 0
    ELSE IF value < 0 /\ GoRem(value, divisor) # 0 THEN GoDiv(value, divisor) - 1
    ELSE GoDiv(value, divisor)

bdxFloorMod(value, divisor) ==
    IF divisor = 0 THEN 0
    ELSE IF GoRem(value, divisor) < 0 THEN GoRem(value, divisor) + divisor
    ELSE GoRem(value, divisor)

isMetadataCommand(cmd) == cmd.op \in {"CreateConstantString", "UseRuntimeIDPool"}

\* getBlockRuntimeID: PlaceBlock names its block by a constant string id
getBlockRuntimeID(d, cmd) ==
    IF cmd.op = "PlaceBlock"
    THEN IF cmd.Value.BlockConstantStringID + 1 \in DOMAIN d.constantStrings
         THEN LegacyBlockToRuntimeID(d.constantStrings[cmd.Value.BlockConstantStringID + 1],
                                     cmd.Value.BlockData)
         ELSE 0
    ELSE 0

\* the loop of parseCommands over the commands ReadCommand yields before EOF;
\* st.trace is the cursor after every command read
RECURSIVE BDXParseLoop(_, _, _)
BDXParseLoop(cmds, k, st) ==
    IF k > Len(cmds) THEN st
    ELSE
      LET cmd == cmds[k]
          pos == advancePos(cmd, st.pos)
          st1 == [st EXCEPT !.pos = pos, !.cmdNum = @ + 1, !.trace = Append(@, pos)]
      IN IF cmd.op = "CreateConstantString"
         THEN BDXParseLoop(cmds, k + 1,
                           [st1 EXCEPT !.constantStrings = Append(@, cmd.Value)])
         ELSE IF cmd.op = "UseRuntimeIDPool" THEN BDXParseLoop(cmds, k + 1, st1)
         ELSE
           LET st2 == [st1 EXCEPT
                         !.size = <<Max(@[1], pos[1]), Max(@[2], pos[2]), Max(@[3], pos[3])>>,
                         !.minPos = <<Min(@[1], pos[1]), Min(@[2], pos[2]), Min(@[3], pos[3])>>]
           IN IF cmd.op = "Terminate" THEN st2 ELSE BDXParseLoop(cmds, k + 1, st2)

\* FromFile: parseCommands and the sizes it derives
BDXFromFile(cmds) ==
    LET st == BDXParseLoop(cmds, 1,
                 [pos |-> <<0, 0, 0>>, size |-> <<0, 0, 0>>, minPos |-> <<0, 0, 0>>,
                  cmdNum |-> 0, constantStrings |-> <<>>, trace |-> <<>>])
        sz == SizeOf(st.size[1] - st.minPos[1] + 1, st.size[2] - st.minPos[2] + 1,
                     st.size[3] - st.minPos[3] + 1)
    IN [variant |-> "BDX", pc |-> "parsed", cmds |-> cmds,
        constantStrings |-> st.constantStrings, minPos |-> st.minPos,
        cmdNum |-> st.cmdNum, trace |-> st.trace,
        size |-> sz, originalSize |-> sz, offsetPos |-> OffsetOf(0, 0, 0)]

\* what parseCommandsToChunks does with a block command at cursor pos
BDXPlace(d, keys, cmd, pos, k) ==
    LET worldX == pos[1] - d.minPos[1] + d.offsetPos.X
        worldY == pos[2] - d.minPos[2] + d.offsetPos.Y
        worldZ == pos[3] - d.minPos[3] + d.offsetPos.Z
        cp == <<bdxFloorDiv(worldX, ChunkSide), bdxFloorDiv(worldZ, ChunkSide)>>
    IN IF worldY < 0 \/ worldY >= d.size.Height \/ cp \notin keys
          \/ getBlockRuntimeID(d, cmd) = 0
       THEN <<>>
       ELSE <<[chunk |-> cp, x |-> Uint8(bdxFloorMod(worldX, ChunkSide)),
               y |-> worldY - YShift, z |-> Uint8(bdxFloorMod(worldZ, ChunkSide)),
               id |-> getBlockRuntimeID(d, cmd),
               world |-> <<worldX, worldY, worldZ>>, index |-> k, cursor |-> pos]>>

\* a loop that moves the cursor only while it is inside a requested chunk
RECURSIVE BDXChunksLoopRequestedOnly(_, _, _, _, _)
BDXChunksLoopRequestedOnly(d, keys, k, pos, acc) ==
    IF k > Len(d.cmds) THEN acc
    ELSE
      LET cmd == d.cmds[k]
          here == <<bdxFloorDiv(pos[1] - d.minPos[1] + d.offsetPos.X, ChunkSide),
                    bdxFloorDiv(pos[3] - d.minPos[3] + d.offsetPos.Z, ChunkSide)>>
          pos1 == IF here \in keys THEN advancePos(cmd, pos) ELSE pos
          acc1 == [acc EXCEPT !.trace = Append(@, pos1)]
      IN IF cmd.op = "Terminate" THEN acc1
         ELSE IF isMetadataCommand(cmd)
         THEN BDXChunksLoopRequestedOnly(d, keys, k + 1, pos1, acc1)
         ELSE BDXChunksLoopRequestedOnly(d, keys, k + 1, pos1,
                            [acc1 EXCEPT !.placed = @ \o BDXPlace(d, keys, cmd, pos1, k)])

RECURSIVE BDXChunksLoop(_, _, _, _, _)
BDXChunksLoop(d, keys, k, pos, acc) ==
    IF k > Len(d.cmds) THEN acc
    ELSE
      LET cmd == d.cmds[k]
          pos1 == advancePos(cmd, pos)
          acc1 == [acc EXCEPT !.trace = Append(@, pos1)]
      IN IF cmd.op = "Terminate" THEN acc1
         ELSE IF isMetadataCommand(cmd) THEN BDXChunksLoop(d, keys, k + 1, pos1, acc1)
         ELSE BDXChunksLoop(d, keys, k + 1, pos1,
                            [acc1 EXCEPT !.placed = @ \o BDXPlace(d, keys, cmd, pos1, k)])

\* GetChunks and parseCommandsToChunks
BDXGetChunks(d, posList) ==
    BDXChunksLoop(d, Range(posList), 1, <<0, 0, 0>>,
                  [err |-> FALSE, keys |-> Range(posList), placed |-> <<>>,
                   vals |-> <<>>, dvals |-> <<>>, trace |-> <<>>])

\* CountNonAirBlocks: the block commands before Terminate whose id is not 0
RECURSIVE BDXCountLoop(_, _, _)
BDXCountLoop(d, k, n) ==
    IF k > Len(d.cmds) \/ d.cmds[k].op = "Terminate" THEN n
    ELSE IF isMetadataCommand(d.cmds[k]) THEN BDXCountLoop(d, k + 1, n)
    ELSE BDXCountLoop(d, k + 1, IF getBlockRuntimeID(d, d.cmds[k]) # 0 THEN n + 1 ELSE n)

BDXCountNonAirBlocks(d) == [err |-> FALSE, n |-> BDXCountLoop(d, 1, 0)]

(***************************************************************************)
(* The sparse record-list variants (RunAway, KBDX)                         *)
(***************************************************************************)
\* runtimeIDFor: the registry's id for the name, or the unknown id
runtimeIDFor(name, aux) ==
    IF LegacyBlockToRuntimeID(name, aux) = 0 THEN UnknownBlockRuntimeID
    ELSE LegacyBlockToRuntimeID(name, aux)

\* accum[key] = runtimeID for every record in file order, keeping the first
\* record of a position instead of the last
RECURSIVE AccumulateFirst(_, _, _)
AccumulateFirst(records, k, accum) ==
    IF k > Len(records) THEN accum
    ELSE AccumulateFirst(records, k + 1,
                         accum @@ (<<records[k].X, records[k].Y, records[k].Z>> :> records[k].id))

\* accum[key] = runtimeID for every record in file order
RECURSIVE Accumulate(_, _, _)
Accumulate(records, k, accum) ==
    IF k > Len(records) THEN accum
    ELSE Accumulate(records, k + 1,
                    (<<records[k].X, records[k].Y, records[k].Z>> :> records[k].id) @@ accum)

\* sort.Slice of the keys by y, then z, then x
RECURSIVE SortKeys(_)
SortKeys(S) ==
    IF S = {} THEN <<>>
    ELSE LET e == CHOOSE a \in S : \A b \in S :
                     \/ a[2] < b[2]
                     \/ (a[2] = b[2] /\ a[3] < b[3])
                     \/ (a[2] = b[2] /\ a[3] = b[3] /\ a[1] <= b[1])
         IN <<e>> \o SortKeys(S \ {e})

\* a minimum that starts from 0 instead of the largest int
MinOfFromZero(S) == CHOOSE a \in S \cup {0} : \A b \in S \cup {0} : a <= b

MinOf(S) == CHOOSE a \in S : \A b \in S : a <= b
MaxOf(S) == CHOOSE a \in S : \A b \in S : a >= b

\* the part of populate shared by the variants: records carry the runtime id
\* resolved for them; the extrema run over every record
PopulateFrom(variant, records) ==
    LET accum == Accumulate(records, 1, <<>>)
        keys == SortKeys(DOMAIN accum)
        minX == MinOf({records[k].X : k \in 1..Len(records)})
        minY == MinOf({records[k].Y : k \in 1..Len(records)})
        minZ == MinOf({records[k].Z : k \in 1..Len(records)})
        maxX == MaxOf({records[k].X : k \in 1..Len(records)})
        maxY == MaxOf({records[k].Y : k \in 1..Len(records)})
        maxZ == MaxOf({records[k].Z : k \in 1..Len(records)})
        blocks == [k \in 1..Len(keys) |->
                     [LocalX |-> keys[k][1] - minX, LocalY |-> keys[k][2] - minY,
                      LocalZ |-> keys[k][3] - minZ, RuntimeID |-> accum[keys[k]]]]
    IN IF Len(records) = 0
       THEN [variant |-> variant, pc |-> "invalid"]
       ELSE [variant |-> variant, pc |-> "parsed", records |-> records,
             origin |-> <<minX, minY, minZ>>, blocks |-> blocks,
             nonAirBlocks |-> Cardinality({k \in 1..Len(blocks) :
                                             blocks[k].RuntimeID # AirRuntimeID}),
             size |-> SizeOf(maxX - minX + 1, maxY - minY + 1, maxZ - minZ + 1),
             originalSize |-> SizeOf(maxX - minX + 1, maxY - minY + 1, maxZ - minZ + 1),
             offsetPos |-> OffsetOf(0, 0, 0)]

\* RunAway.populate over the decoded JSON entries
RunAwayPopulate(runAwayEntries) ==
    PopulateFrom("RunAway",
                 [k \in 1..Len(runAwayEntries) |->
                    [X |-> runAwayEntries[k].X, Y |-> runAwayEntries[k].Y, Z |-> runAwayEntries[k].Z,
                     id |-> runtimeIDFor(runAwayEntries[k].Name, runAwayEntries[k].Aux)]])

\* KBDX.populate: the name of a raw block is its palette entry, or ""
KBDXPopulate(rawBlocks, palette) ==
    PopulateFrom("KBDX",
                 [k \in 1..Len(rawBlocks) |->
                    [X |-> rawBlocks[k].X, Y |-> rawBlocks[k].Y, Z |-> rawBlocks[k].Z,
                     id |-> runtimeIDFor(IF rawBlocks[k].Index \in DOMAIN palette
                                         THEN palette[rawBlocks[k].Index] ELSE "",
                                         rawBlocks[k].Aux)]])

\* the positions a line of a function file writes, in the order of the loops
\* of FromFile: a setblock line one position, a fill line every position of
\* its box (x outermost, then y, then z), any other line none
LinePositions(line) ==
    CASE line.op = "setblock" -> <<line.p1>>
      [] line.op = "fill" ->
           LET xMin == Min(line.p1[1], line.p2[1])
               yMin == Min(line.p1[2], line.p2[2])
               zMin == Min(line.p1[3], line.p2[3])
               nx == Max(line.p1[1], line.p2[1]) - xMin + 1
               ny == Max(line.p1[2], line.p2[2]) - yMin + 1
               nz == Max(line.p1[3], line.p2[3]) - zMin + 1
           IN [i \in 1..(nx * ny * nz) |->
                 <<xMin + ((i - 1) \div (ny * nz)),
                   yMin + (((i - 1) \div nz) % ny),
                   zMin + ((i - 1) % nz)>>]
      [] OTHER -> <<>>

\* MCFunction.FromFile over the lines of the file
MCFunctionFromFile(lines) ==
    LET recs == Concat([k \in 1..Len(lines) |->
                   [i \in 1..Len(LinePositions(lines[k])) |->
                      [X |-> LinePositions(lines[k])[i][1],
                       Y |-> LinePositions(lines[k])[i][2],
                       Z |-> LinePositions(lines[k])[i][3],
                       id |-> runtimeIDFor(lines[k].name, 0)]]])
        d == PopulateFrom("MCFunction", recs)
    IN IF d.pc = "parsed"
       THEN [variant |-> d.variant, pc |-> d.pc, lines |-> lines, records |-> d.records,
             origin |-> d.origin, blocks |-> d.blocks, nonAirBlocks |-> d.nonAirBlocks,
             size |-> d.size, originalSize |-> d.originalSize, offsetPos |-> d.offsetPos]
       ELSE d

\* a placement that does not look the chunk up among the requested ones
SparsePlaceUnfiltered(d, keys, k) ==
    LET newX == d.blocks[k].LocalX + d.offsetPos.X
        newY == d.blocks[k].LocalY + d.offsetPos.Y
        newZ == d.blocks[k].LocalZ + d.offsetPos.Z
        chunkX == floorDiv(newX, 16)
        chunkZ == floorDiv(newZ, 16)
    IN <<[chunk |-> <<chunkX, chunkZ>>, x |-> Uint8(newX - chunkX * 16),
          y |-> newY - YShift, z |-> Uint8(newZ - chunkZ * 16),
          id |-> d.blocks[k].RuntimeID,
          world |-> <<newX, newY, newZ>>, index |-> k]>>

\* GetChunks of the sparse variants
SparsePlace(d, keys, k) ==
    LET newX == d.blocks[k].LocalX + d.offsetPos.X
        newY == d.blocks[k].LocalY + d.offsetPos.Y
        newZ == d.blocks[k].LocalZ + d.offsetPos.Z
        chunkX == floorDiv(newX, 16)
        chunkZ == floorDiv(newZ, 16)
    IN IF <<chunkX, chunkZ>> \notin keys THEN <<>>
       ELSE <<[chunk |-> <<chunkX, chunkZ>>, x |-> Uint8(newX - chunkX * 16),
               y |-> newY - YShift, z |-> Uint8(newZ - chunkZ * 16),
               id |-> d.blocks[k].RuntimeID,
               world |-> <<newX, newY, newZ>>, index |-> k]>>

SparseGetChunks(d, posList) ==
    [err |-> FALSE, keys |-> Range(posList),
     placed |-> Concat([k \in 1..Len(d.blocks) |-> SparsePlace(d, Range(posList), k)]),
     vals |-> <<>>, dvals |-> <<>>]

SparseCountNonAirBlocks(d) == [err |-> FALSE, n |-> d.nonAirBlocks]

(***************************************************************************)
(* A document: FromFile, SetOffsetPos, GetChunks, CountNonAirBlocks        *)
(***************************************************************************)
DenseDims == {<<1, 1, 1>>, <<2, 2, 2>>, <<3, 2, 1>>}
LitematicDims == {<<1, 1, 1>>, <<2, 2, 2>>, <<2, 2, 4>>}

Stone == AirRuntimeID + 16
Glass == AirRuntimeID + 32

SchematicFiles ==
    {SchematicTags(dm[1], dm[2], dm[3],
                   Pattern(dm[1] * dm[2] * dm[3], 3, start, stride),
                   Pattern(dm[1] * dm[2] * dm[3], 2, 0, 1), blocksFirst) :
       dm \in DenseDims, start \in {0, 1}, stride \in {1}, blocksFirst \in BOOLEAN}

\* palettes with and without an air entry; layer 0 holds -1 where it has no block
MCStructurePalettes ==
    {(0 :> AirRuntimeID) @@ (1 :> Stone) @@ (2 :> UnknownBlockRuntimeID),
     (0 :> Stone) @@ (1 :> Glass)}

MCStructureDocs ==
    {MCStructureFromFile(dm[1], dm[2], dm[3],
                         [i \in 1..(dm[1] * dm[2] * dm[3]) |->
                            Pattern(dm[1] * dm[2] * dm[3], 4, start, stride)[i] - 1],
                         palette) :
       dm \in DenseDims, start \in {0, 2}, stride \in {1}, palette \in MCStructurePalettes}

\* palettes of 2, 3 and 17 entries: 2, 2 and 5 bits per entry, so that entries
\* of the largest one straddle two longs
LitematicPalettes ==
    {<<AirRuntimeID, Stone>>, <<AirRuntimeID, Stone, Glass>>,
     [i \in 1..17 |-> IF i = 1 THEN AirRuntimeID ELSE Stone + i]}

LitematicDocs ==
    {LitematicFromFile(dm[1], dm[2], dm[3],
                       Pattern(dm[1] * dm[2] * dm[3], Len(palette), start, stride), palette) :
       dm \in LitematicDims, palette \in LitematicPalettes, start \in {1}, stride \in {1}}

BDXMoves ==
    {Cmd("AddXValue", 0), Cmd("SubtractYValue", 0), Cmd("AddInt8XValue", -3),
     Cmd("AddInt16ZValue", 17), Cmd("NoOperation", 0)}

PlaceBlock(id) == Cmd("PlaceBlock", [BlockConstantStringID |-> id, BlockData |-> 0])

\* streams that place a first block, move, place a second one, move and place
\* a third one; constant string 2 is never created; and streams that place
\* no block at all
BDXStreams ==
    {<<Cmd("CreateConstantString", "stone"), Cmd("CreateConstantString", "air"),
       PlaceBlock(0), m1, PlaceBlock(a), Cmd("UseRuntimeIDPool", 0), m2, PlaceBlock(b)>>
     \o tail :
       m1 \in BDXMoves, m2 \in {Cmd("AddXValue", 0), Cmd("AddInt16ZValue", 17)},
       a \in {0, 1}, b \in {2},
       tail \in {<<Cmd("Terminate", 0), Cmd("AddXValue", 0)>>}}
    \cup {<<Cmd("CreateConstantString", "glass"), Cmd("AddYValue", 0), PlaceBlock(0)>>}
    \cup {<<>>, <<Cmd("AddXValue", 0), Cmd("Terminate", 0)>>}

Entry(name, x, y, z) == [Name |-> name, Aux |-> 0, X |-> x, Y |-> y, Z |-> z]

\* up to three records over a few positions, repeated positions included
RunAwayFiles ==
    {<<Entry(n1, 0, 0, 0)>> \o more :
       n1 \in {"stone", "air"},
       more \in {<<>>} \cup {<<Entry(n2, x2, 0, 0)>> : n2 \in {"glass", "air"}, x2 \in {0, 1}}
                \cup {<<Entry(n2, x2, 0, 0), Entry(n3, x3, 1, 2)>> :
                        n2 \in {"glass"}, x2 \in {0, 1},
                        n3 \in {"stone", "nosuchblock"}, x3 \in {0, 1}}}
    \cup {<<>>}

RawBlock(index, x, y, z) == [Index |-> index, Aux |-> 0, X |-> x, Y |-> y, Z |-> z]

KBDXPalette == (0 :> "air") @@ (1 :> "stone") @@ (2 :> "glass")

KBDXFiles ==
    {<<RawBlock(i1, 5, 0, 0), RawBlock(i2, x2, 0, 0), RawBlock(i3, 5, 0, z3)>> :
       i1 \in {1}, i2 \in {2, 7}, x2 \in {5, 6}, i3 \in {0, 1}, z3 \in {0, 1}}
    \cup {<<>>}

Line(op, p1, p2, name) == [op |-> op, p1 |-> p1, p2 |-> p2, name |-> name]

\* function files of setblock, fill and other lines, negative coordinates and
\* overwritten positions included
MCFunctionFiles ==
    {<<Line("setblock", <<1, 2, 3>>, <<0, 0, 0>>, "stone")>>,
     <<Line("say", <<0, 0, 0>>, <<0, 0, 0>>, "hello")>>,
     <<Line("fill", <<0, 0, 0>>, <<1, 0, 1>>, "stone"),
       Line("setblock", <<-2, 0, 0>>, <<0, 0, 0>>, "glass")>>,
     <<Line("fill", <<2, 1, 0>>, <<0, 0, 0>>, "air"), Line("say", <<9, 9, 9>>, <<0, 0, 0>>, "x"),
       Line("setblock", <<1, 0, 0>>, <<0, 0, 0>>, "stone")>>,
     <<Line("setblock", <<-1, -1, -1>>, <<0, 0, 0>>, "nosuchblock"),
       Line("fill", <<-1, 0, 14>>, <<-1, 1, 17>>, "glass")>>}

DocOffsets ==
    {<<0, 0, 0>>, <<-1, 0, 0>>, <<15, 0, 15>>, <<-17, -1, 0>>, <<0, 0, -1>>, <<3, 0, -4>>}

\* the chunks the offset-applied footprint of the document touches
NearChunks(d) ==
    {<<cx, cz>> :
       cx \in floorDiv(d.offsetPos.X, 16)..floorDiv(d.offsetPos.X + d.originalSize.Width - 1, 16),
       cz \in floorDiv(d.offsetPos.Z, 16)..floorDiv(d.offsetPos.Z + d.originalSize.Length - 1, 16)}

FarChunk == <<5, 5>>

\* every subset of the touched chunks, a far chunk, and lists that repeat a
\* position
PosLists(d) ==
    {SetToSeq(S) : S \in SUBSET NearChunks(d)}
    \cup {<<FarChunk>>, SetToSeq(NearChunks(d)) \o <<FarChunk>>}
    \cup {<<p, p>> : p \in NearChunks(d)}

InitDoc ==
    /\ IdleOutside({"doc"})
    /\ doc = [pc |-> "new"]
    /\ req = <<>>
    /\ res = Idle
    /\ full = Idle
    /\ cnt = Idle

FromFile ==
    /\ doc.pc = "new"
    /\ \/ \E tags \in SchematicFiles : doc' = SchematicFromFile(tags)
       \/ doc' \in MCStructureDocs
       \/ doc' \in LitematicDocs
       \/ \E cmds \in BDXStreams : doc' = BDXFromFile(cmds)
       \/ \E es \in RunAwayFiles : doc' = RunAwayPopulate(es)
       \/ \E rb \in KBDXFiles : doc' = KBDXPopulate(rb, KBDXPalette)
       \/ \E lines \in MCFunctionFiles : doc' = MCFunctionFromFile(lines)
    /\ UNCHANGED <<req, res, full, cnt>>
    /\ UNCHANGED <<codecVars, box, rt, seg, reg, conv, fh, loop, trunc, pal, flag, mcs>>

DocSetOffsetPos ==
    /\ doc.pc = "parsed"
    /\ \E o \in DocOffsets : doc' = SetOffsetPos(doc, OffsetOf(o[1], o[2], o[3]))
    /\ req' = <<>>
    /\ res' = Idle
    /\ cnt' = Idle
    /\ UNCHANGED full
    /\ UNCHANGED <<codecVars, box, rt, seg, reg, conv, fh, loop, trunc, pal, flag, mcs>>

GetChunksOf(d, posList) ==
    CASE d.variant = "Schematic" -> SchematicGetChunks(d, posList)
      [] d.variant = "MCStructure" -> MCStructureGetChunks(d, posList)
      [] d.variant = "Litematic" -> LitematicGetChunks(d, posList)
      [] d.variant = "BDX" -> BDXGetChunks(d, posList)
      [] OTHER -> SparseGetChunks(d, posList)

GetChunks ==
    /\ doc.pc = "parsed"
    /\ \E posList \in PosLists(doc) :
          /\ req' = posList
          /\ res' = GetChunksOf(doc, posList)
    /\ UNCHANGED <<doc, full, cnt>>
    /\ UNCHANGED <<codecVars, box, rt, seg, reg, conv, fh, loop, trunc, pal, flag, mcs>>

AirKeys(d) ==
    CASE d.variant = "MCStructure" -> {k \in DOMAIN d.palette : d.palette[k] = AirRuntimeID}
      [] d.variant = "Litematic" -> {k - 1 : k \in {j \in 1..Len(d.palette) : d.palette[j] = AirRuntimeID}}
      [] OTHER -> {}

CountNonAirBlocksOf(d, airIndex) ==
    CASE d.variant = "Schematic" -> SchematicCountNonAirBlocks(d)
      [] d.variant = "MCStructure" -> MCStructureCountNonAirBlocks(d, airIndex)
      [] d.variant = "Litematic" -> LitematicCountNonAirBlocks(d, airIndex)
      [] d.variant = "BDX" -> BDXCountNonAirBlocks(d)
      [] OTHER -> SparseCountNonAirBlocks(d)

CountNonAirBlocks ==
    /\ doc.pc = "parsed"
    /\ \E airIndex \in AirKeys(doc) \cup {0} :
          /\ (AirKeys(doc) # {} => airIndex \in AirKeys(doc))
          /\ cnt' = CountNonAirBlocksOf(doc, airIndex)
    /\ UNCHANGED <<doc, req, res, full>>
    /\ UNCHANGED <<codecVars, box, rt, seg, reg, conv, fh, loop, trunc, pal, flag, mcs>>

\* a full sequential decode of the stored array of a dense document
FullDecode ==
    /\ doc.pc = "parsed"
    /\ doc.variant \in {"Schematic", "MCStructure", "Litematic"}
    /\ full' = (CASE doc.variant = "Schematic" -> SchematicReadAll(doc)
                  [] doc.variant = "MCStructure" -> MCStructureReadAll(doc)
                  [] OTHER -> LitematicReadAll(doc))
    /\ UNCHANGED <<doc, req, res, cnt>>
    /\ UNCHANGED <<codecVars, box, rt, seg, reg, conv, fh, loop, trunc, pal, flag, mcs>>

NextDoc == FromFile \/ DocSetOffsetPos \/ GetChunks \/ CountNonAirBlocks \/ FullDecode

SpecDoc == InitDoc /\ [][NextDoc]_vars

(***************************************************************************)
(* Properties of a document                                                *)
(***************************************************************************)
Dense == doc.pc = "parsed" /\ doc.variant \in {"Schematic", "MCStructure", "Litematic"}

NoRepeat(s) == \A i, j \in 1..Len(s) : s[i] = s[j] => i = j

Answered == doc.pc = "parsed" /\ res # Idle /\ ~res.err

\* the chunk that holds a world position
ChunkOf(world) == <<floorDiv(world[1], ChunkSide), floorDiv(world[3], ChunkSide)>>

\* C2: for a stored index array and a set of requested entries (no position
\* requested twice), every value the selective streaming decode of GetChunks
\* obtains equals the value the full sequential decode yields at the same
\* index, for the empty, the partial and the full selection alike
C2_SelectiveEqualsFull ==
    (Dense /\ Answered /\ full # Idle /\ ~full.err /\ NoRepeat(req)) =>
        /\ DOMAIN res.vals \subseteq 0..(Volume(doc.originalSize) - 1)
        /\ \A i \in DOMAIN res.vals : res.vals[i] = full.vals[i + 1]
        /\ doc.variant = "Schematic" =>
              /\ DOMAIN res.dvals = DOMAIN res.vals
              /\ \A i \in DOMAIN res.dvals : res.dvals[i] = full.dvals[i + 1]
        /\ doc.variant # "Litematic" =>
              DOMAIN res.vals =
                 {i \in 0..(Volume(doc.originalSize) - 1) :
                    IF doc.variant = "Schematic" THEN SchematicIndexCount(doc, req, i) > 0
                    ELSE MCStructureIndexCount(doc, req, i) > 0}

\* a partial selection with a gap between two selected entries, one of them
\* not zero, compared with the full decode
C2_Witness ==
    /\ Dense /\ Answered /\ full # Idle /\ ~full.err /\ NoRepeat(req)
    /\ \E i, j \in DOMAIN res.vals :
          /\ i + 1 < j
          /\ (i + 1) \notin DOMAIN res.vals
          /\ res.vals[j] # 0
    /\ DOMAIN res.vals # 0..(Volume(doc.originalSize) - 1)

\* C4: every block GetChunks places lies in chunk floorDiv(v, 16) at local
\* coordinate floorMod(v, 16) of its offset-applied world X and Z, negative
\* coordinates included
C4_FloorSplit ==
    Answered =>
        \A k \in 1..Len(res.placed) :
           LET p == res.placed[k]
           IN /\ p.chunk = ChunkOf(p.world)
              /\ p.x = floorMod(p.world[1], ChunkSide)
              /\ p.z = floorMod(p.world[3], ChunkSide)

\* C6: at zero offset the count CountNonAirBlocks reports is the number of
\* positions at which GetChunks, asked for every chunk the structure covers,
\* places a block that is not air
C6_CountIsNonAirPositions ==
    (Answered /\ cnt # Idle /\ ~cnt.err /\ doc.offsetPos = OffsetOf(0, 0, 0)
       /\ NearChunks(doc) \subseteq Range(req)) =>
        cnt.n = Cardinality({res.placed[k].world :
                               k \in {j \in 1..Len(res.placed) :
                                        res.placed[j].id # AirRuntimeID}})

\* C7: the map GetChunks returns has exactly the requested chunk positions as
\* keys; every block it places goes into one of those chunks and has its
\* offset-applied position inside a requested chunk
C7_OnlyRequestedChunks ==
    Answered =>
        /\ res.keys = Range(req)
        /\ \A k \in 1..Len(res.placed) :
              /\ res.placed[k].chunk \in Range(req)
              /\ ChunkOf(res.placed[k].world) \in Range(req)

\* some chunk the document covers is not requested, some block is placed
C7_Witness ==
    /\ Answered
    /\ NearChunks(doc) \ Range(req) # {}
    /\ Len(res.placed) > 0
    /\ doc.variant \in {"RunAway", "KBDX"}

\* C8: GetChunks moves the cursor by every cursor-moving opcode of the stream
\* whichever chunks are requested: its cursor after each opcode is the one
\* FromFile computed, and so is the cursor at which it places a block
C8_CursorTracksWholeStream ==
    (Answered /\ doc.variant = "BDX") =>
        /\ res.trace = doc.trace
        /\ \A k \in 1..Len(res.placed) :
              res.placed[k].cursor = doc.trace[res.placed[k].index]

\* a block placed after cursor moves while a covered chunk is not requested
C8_Witness ==
    /\ Answered /\ doc.variant = "BDX"
    /\ NearChunks(doc) \ Range(req) # {}
    /\ \E k \in 1..Len(res.placed) : res.placed[k].cursor # <<0, 0, 0>>

\* the records of the file that lie at position pos
RecordsAt(pos) ==
    {k \in 1..Len(doc.records) :
       <<doc.records[k].X, doc.records[k].Y, doc.records[k].Z>> = pos}

\* C10: a parsed record list holds exactly one block for every position of
\* the file, with the runtime id of the last record of that position
C10_LastWriterWins ==
    (doc.pc = "parsed" /\ doc.variant \in {"RunAway", "KBDX"}) =>
        \A r \in 1..Len(doc.records) :
           LET pos == <<doc.records[r].X, doc.records[r].Y, doc.records[r].Z>>
               last == CHOOSE k \in RecordsAt(pos) : \A j \in RecordsAt(pos) : j <= k
               held == {b \in 1..Len(doc.blocks) :
                          <<doc.blocks[b].LocalX + doc.origin[1],
                            doc.blocks[b].LocalY + doc.origin[2],
                            doc.blocks[b].LocalZ + doc.origin[3]>> = pos}
           IN /\ Cardinality(held) = 1
              /\ \A b \in held : doc.blocks[b].RuntimeID = doc.records[last].id

\* two records share a position and resolve to different runtime ids
C10_Witness ==
    /\ doc.pc = "parsed" /\ doc.variant \in {"RunAway", "KBDX"}
    /\ \E i, j \in 1..Len(doc.records) :
          /\ i < j
          /\ doc.records[i].X = doc.records[j].X
          /\ doc.records[i].Y = doc.records[j].Y
          /\ doc.records[i].Z = doc.records[j].Z
          /\ doc.records[i].id # doc.records[j].id

(***************************************************************************)
(* The segment writer of the IBImport container                            *)
(***************************************************************************)
MaxSegments == 2
\* capacity of the buffered sink in front of the XOR writer (scaled down)
SinkSize == 4

IBImportHeader == <<73, 66, 73, 109, 112, 111, 114, 116, 32>>

\* b ^ key on bytes
RECURSIVE ByteXor(_, _, _)
ByteXor(a, b, n) ==
    IF n = 0 THEN 0
    ELSE (((a % 2) + (b % 2)) % 2) + 2 * ByteXor(a \div 2, b \div 2, n - 1)

\* os.File: Write at the file position overwrites or extends, and advances
FileWrite(f, bytes) ==
    [data |-> [i \in 1..Max(Len(f.data), f.pos + Len(bytes)) |->
                 IF i > f.pos /\ i <= f.pos + Len(bytes) THEN bytes[i - f.pos]
                 ELSE f.data[i]],
     pos |-> f.pos + Len(bytes)]

FileSeek(f, to) == [f EXCEPT !.pos = to]

\* a five-byte encoding that is as short as the value allows
RECURSIVE encodeVarIntMinimal(_)
encodeVarIntMinimal(value) ==
    IF value < 0 THEN [out |-> <<>>, err |-> TRUE]
    ELSE IF value < 128 THEN [out |-> <<value>>, err |-> FALSE]
    ELSE [out |-> <<128 + (value % 128)>> \o encodeVarIntMinimal(value \div 128).out,
          err |-> FALSE]

\* seven bits per byte, low group first, the continuation bit on the first
\* four bytes whatever the value (values beyond 2^35-1 do not occur here)
encodeIBImportVarIntFixed5(value) ==
    IF value < 0 THEN [out |-> <<>>, err |-> TRUE]
    ELSE [out |-> [i \in 1..5 |->
                     ((value \div Pow2(7 * (i - 1))) % 128) + (IF i < 5 THEN 128 ELSE 0)],
          err |-> FALSE]

\* readIBImportVarInt from position pos of data: the 7-bit groups occupy
\* disjoint bits, so "|=" adds them
RECURSIVE ReadVarIntLoop(_, _, _, _)
ReadVarIntLoop(data, pos, value, position) ==
    IF pos >= Len(data) THEN [val |-> 0, pos |-> pos, err |-> TRUE, eof |-> TRUE]
    ELSE
      LET b == data[pos + 1]
          v == value + (b % 128) * Pow2(position)
      IN IF b < 128 THEN [val |-> v, pos |-> pos + 1, err |-> FALSE, eof |-> FALSE]
         ELSE IF position + 7 >= 32
         THEN [val |-> 0, pos |-> pos + 1, err |-> TRUE, eof |-> FALSE]
         ELSE ReadVarIntLoop(data, pos + 1, v, position + 7)

readIBImportVarInt(data, pos) == ReadVarIntLoop(data, pos, 0, 0)

\* readIBImportSegments over the bytes that follow position pos
RECURSIVE readIBImportSegments(_, _, _)
readIBImportSegments(data, pos, segments) ==
    IF pos >= Len(data) THEN [segments |-> segments, err |-> FALSE]
    ELSE
      LET ln == readIBImportVarInt(data, pos)
      IN IF ln.err THEN [segments |-> segments, err |-> ~ln.eof]
         ELSE IF ln.pos >= Len(data) \/ ln.pos + 1 + ln.val > Len(data)
         THEN [segments |-> <<>>, err |-> TRUE]
         ELSE LET key == data[ln.pos + 1]
                  body == [i \in 1..ln.val |-> ByteXor(data[ln.pos + 1 + i], key, 8)]
              IN readIBImportSegments(data, ln.pos + 1 + ln.val, Append(segments, body))

NoWriter == [open |-> FALSE]

\* ibImportXORCountingWriter.Write
XORWrite(f, wr, p) ==
    IF Len(p) = 0 THEN [file |-> f, w |-> wr]
    ELSE [file |-> FileWrite(f, [i \in 1..Len(p) |-> ByteXor(p[i], wr.key, 8)]),
          w |-> [wr EXCEPT !.n = @ + Len(p)]]

\* the buffered sink: Flush hands the buffered bytes to the XOR writer
SinkFlush(f, wr) ==
    LET x == XORWrite(f, wr, wr.buf) IN [file |-> x.file, w |-> [x.w EXCEPT !.buf = <<>>]]

\* the buffered sink: Write fills the buffer and flushes it when it is full;
\* with an empty buffer a write larger than the buffer goes straight through
RECURSIVE SinkWrite(_, _, _)
SinkWrite(f, wr, p) ==
    LET avail == SinkSize - Len(wr.buf)
    IN IF Len(p) <= avail THEN [file |-> f, w |-> [wr EXCEPT !.buf = @ \o p]]
       ELSE IF Len(wr.buf) = 0 THEN XORWrite(f, wr, p)
       ELSE LET fl == SinkFlush(f, [wr EXCEPT !.buf = @ \o SubSeq(p, 1, avail)])
            IN SinkWrite(fl.file, fl.w, SubSeq(p, avail + 1, Len(p)))

SegmentKeys == {193, 90}

LongPayload == [i \in 1..130 |-> (i * 7) % 256]

\* the sequences of Write calls made on one segment
WriteSequences ==
    {<<>>, <<<<1, 255>>>>, <<<<1, 255>>, <<0, 193, 90>>>>, <<LongPayload>>,
     <<<<0, 193, 90>>, LongPayload>>, <<<<1, 255>>, <<>>, <<1, 255>>>>}

IsPrefix(s, t) == Len(s) <= Len(t) /\ SubSeq(t, 1, Len(s)) = s

\* FromMCWorld truncates the target and writes the header
InitSegment ==
    /\ IdleOutside({"seg"})
    /\ seg = [file |-> FileWrite([data |-> <<>>, pos |-> 0], IBImportHeader),
              w |-> NoWriter, closed |-> <<>>]

beginIBImportSegment ==
    /\ ~seg.w.open
    /\ Len(seg.closed) < MaxSegments
    /\ \E key \in SegmentKeys :
          seg' = [seg EXCEPT
                    !.file = FileWrite(FileWrite(@, <<128, 128, 128, 128, 0>>), <<key>>),
                    !.w = [open |-> TRUE, lengthPos |-> seg.file.pos, key |-> key, n |-> 0,
                           buf |-> <<>>, writes |-> <<>>]]
    /\ UNCHANGED <<codecVars, docVars, box, rt, reg, conv, fh, loop, trunc, pal, flag, mcs>>

SegmentWrite ==
    /\ seg.w.open
    /\ \E ws \in WriteSequences :
          /\ Len(ws) > Len(seg.w.writes)
          /\ IsPrefix(seg.w.writes, ws)
          /\ LET p == ws[Len(seg.w.writes) + 1]
                 x == SinkWrite(seg.file, seg.w, p)
             IN seg' = [seg EXCEPT !.file = x.file,
                                   !.w = [x.w EXCEPT !.writes = Append(@, p)]]
    /\ UNCHANGED <<codecVars, docVars, box, rt, reg, conv, fh, loop, trunc, pal, flag, mcs>>

SegmentClose ==
    /\ seg.w.open
    /\ LET fl == SinkFlush(seg.file, seg.w)
           payloadLen == fl.w.n
           endPos == fl.file.pos
           encoded == encodeIBImportVarIntFixed5(payloadLen)
           patched == FileSeek(FileWrite(FileSeek(fl.file, fl.w.lengthPos), encoded.out), endPos)
       IN /\ ~encoded.err
          /\ seg' = [seg EXCEPT
                       !.file = patched,
                       !.w = NoWriter,
                       !.closed = Append(@, [start |-> fl.w.lengthPos, key |-> fl.w.key,
                                             payload |-> Concat(fl.w.writes),
                                             end |-> patched.pos])]
    /\ UNCHANGED <<codecVars, docVars, box, rt, reg, conv, fh, loop, trunc, pal, flag, mcs>>

NextSegment == beginIBImportSegment \/ SegmentWrite \/ SegmentClose

SpecSegment == InitSegment /\ [][NextSegment]_vars

\* C9: after Close of each segment written in turn, the five bytes at the
\* segment start are a fixed-width variable-length integer (continuation bit
\* on the first four) that decodes to the number of payload bytes written,
\* the key follows, every payload byte is stored XORed with the key, and the
\* file position is at the end of the segment, where the next one starts
C9_SegmentLengthPatched ==
    /\ \A k \in 1..Len(seg.closed) :
          LET s == seg.closed[k]
              ln == readIBImportVarInt(seg.file.data, s.start)
          IN /\ ~ln.err
             /\ ln.pos = s.start + 5
             /\ ln.val = Len(s.payload)
             /\ \A i \in 1..4 : seg.file.data[s.start + i] >= 128
             /\ seg.file.data[s.start + 6] = s.key
             /\ \A i \in 1..Len(s.payload) :
                   seg.file.data[s.start + 6 + i] = ByteXor(s.payload[i], s.key, 8)
             /\ s.end = s.start + 6 + Len(s.payload)
             /\ s.start = (IF k = 1 THEN Len(IBImportHeader) ELSE seg.closed[k - 1].end)
    /\ (~seg.w.open /\ Len(seg.closed) > 0) =>
          /\ seg.file.pos = seg.closed[Len(seg.closed)].end
          /\ seg.file.pos = Len(seg.file.data)
          /\ readIBImportSegments(seg.file.data, Len(IBImportHeader), <<>>)
               = [segments |-> [k \in 1..Len(seg.closed) |-> seg.closed[k].payload],
                  err |-> FALSE]

\* two segments closed one after the other, the first longer than 127 bytes
\* and written through several Write calls
C9_Witness ==
    /\ ~seg.w.open
    /\ Len(seg.closed) = 2
    /\ Len(seg.closed[1].payload) > 127
    /\ Len(seg.closed[2].payload) > 0
    /\ seg.closed[1].key # seg.closed[2].key

(***************************************************************************)
(* Schematic: FromMCWorld, then FromFile and the decode                    *)
(***************************************************************************)
\* blocks.RuntimeIDToSchematic: the inverse of SchematicRuntimeID
RuntimeIDToSchematic(runtimeID) ==
    IF runtimeID <= AirRuntimeID THEN [block |-> 0, value |-> 0]
    ELSE [block |-> (runtimeID - AirRuntimeID) \div 16,
          value |-> (runtimeID - AirRuntimeID) % 16]

\* the runtime ids of the region in the order the nested loops visit it:
\* y outermost, then z, then x
RegionIDs(world, startPos, endPos) ==
    LET wd == endPos[1] - startPos[1] + 1
        l == endPos[3] - startPos[3] + 1
        h == endPos[2] - startPos[2] + 1
    IN [i \in 1..(wd * h * l) |->
          world[<<startPos[1] + ((i - 1) % wd),
                  startPos[2] + (((i - 1) \div wd) \div l),
                  startPos[3] + (((i - 1) \div wd) % l)>>]]

\* FromMCWorld: the tags written for the region between the two points
SchematicFromMCWorld(world, point1BlockPos, point2BlockPos) ==
    LET startPos == <<Min(point1BlockPos[1], point2BlockPos[1]),
                      Min(point1BlockPos[2], point2BlockPos[2]),
                      Min(point1BlockPos[3], point2BlockPos[3])>>
        endPos == <<Max(point1BlockPos[1], point2BlockPos[1]),
                    Max(point1BlockPos[2], point2BlockPos[2]),
                    Max(point1BlockPos[3], point2BlockPos[3])>>
        ids == RegionIDs(world, startPos, endPos)
    IN <<Tag("compound", "Schematic", <<>>),
         Tag("short", "Length", endPos[3] - startPos[3] + 1),
         Tag("short", "Height", endPos[2] - startPos[2] + 1),
         Tag("short", "Width", endPos[1] - startPos[1] + 1),
         Tag("string", "Materials", "Alpha"),
         Tag("bytes", "Blocks", [i \in 1..Len(ids) |-> RuntimeIDToSchematic(ids[i]).block]),
         Tag("bytes", "Data", [i \in 1..Len(ids) |-> RuntimeIDToSchematic(ids[i]).value]),
         Tag("end", "", <<>>)>>

WorldCells == (0..1) \X (0..1) \X (0..1)
WorldIDs == {AirRuntimeID, Glass + 3}
Point2s == {<<0, 0, 0>>, <<1, 1, 1>>}

InitRoundTrip ==
    /\ IdleOutside({"rt"})
    /\ \E world \in [WorldCells -> WorldIDs], p1 \in WorldCells, p2 \in Point2s :
          rt = [pc |-> "world", world |-> world, point1 |-> p1, point2 |-> p2]

RoundTripFromMCWorld ==
    /\ rt.pc = "world"
    /\ rt' = [pc |-> "written", world |-> rt.world, point1 |-> rt.point1, point2 |-> rt.point2,
              tags |-> SchematicFromMCWorld(rt.world, rt.point1, rt.point2)]
    /\ UNCHANGED <<codecVars, docVars, box, seg, reg, conv, fh, loop, trunc, pal, flag, mcs>>

RoundTripFromFile ==
    /\ rt.pc = "written"
    /\ rt' = [pc |-> "parsed", world |-> rt.world, point1 |-> rt.point1, point2 |-> rt.point2,
              doc |-> SchematicFromFile(rt.tags)]
    /\ UNCHANGED <<codecVars, docVars, box, seg, reg, conv, fh, loop, trunc, pal, flag, mcs>>

\* the decode: CountNonAirBlocks and GetChunks of the chunk that holds the
\* structure at zero offset
RoundTripDecode ==
    /\ rt.pc = "parsed"
    /\ rt.doc.pc = "parsed"
    /\ rt' = [pc |-> "decoded", world |-> rt.world, point1 |-> rt.point1, point2 |-> rt.point2,
              doc |-> rt.doc,
              count |-> SchematicCountNonAirBlocks(rt.doc),
              chunks |-> SchematicGetChunks(rt.doc, <<<<0, 0>>>>)]
    /\ UNCHANGED <<codecVars, docVars, box, seg, reg, conv, fh, loop, trunc, pal, flag, mcs>>

NextRoundTrip == RoundTripFromMCWorld \/ RoundTripFromFile \/ RoundTripDecode

SpecRoundTrip == InitRoundTrip /\ [][NextRoundTrip]_vars

\* the runtime id the decoded chunk holds at a position: air where GetChunks
\* placed nothing
DecodedAt(chunks, pos) ==
    IF \E k \in 1..Len(chunks.placed) : chunks.placed[k].world = pos
    THEN chunks.placed[CHOOSE k \in 1..Len(chunks.placed) :
                          /\ chunks.placed[k].world = pos
                          /\ \A j \in 1..Len(chunks.placed) :
                                chunks.placed[j].world = pos => j <= k].id
    ELSE AirRuntimeID

\* C5: a region written with FromMCWorld, parsed with FromFile and decoded
\* has the non-air block count of the source region and, at every position,
\* the runtime id the source region holds there
C5_RoundTrip ==
    rt.pc = "decoded" =>
        LET startPos == <<Min(rt.point1[1], rt.point2[1]), Min(rt.point1[2], rt.point2[2]),
                          Min(rt.point1[3], rt.point2[3])>>
            endPos == <<Max(rt.point1[1], rt.point2[1]), Max(rt.point1[2], rt.point2[2]),
                        Max(rt.point1[3], rt.point2[3])>>
            cells == {c \in WorldCells : \A a \in 1..3 : startPos[a] <= c[a] /\ c[a] <= endPos[a]}
        IN /\ ~rt.count.err
           /\ ~rt.chunks.err
           /\ rt.count.n = Cardinality({c \in cells : rt.world[c] # AirRuntimeID})
           /\ \A c \in cells :
                 DecodedAt(rt.chunks, <<c[1] - startPos[1], c[2] - startPos[2],
                                        c[3] - startPos[3]>>) = rt.world[c]

Sparse == doc.pc = "parsed" /\ doc.variant \in {"RunAway", "KBDX", "MCFunction"}

\* the positions the file names: those of its records, and for a function
\* file those of its setblock lines and of the boxes of its fill lines
ObservedPositions ==
    IF doc.variant = "MCFunction"
    THEN UNION {IF doc.lines[k].op = "setblock" THEN {doc.lines[k].p1}
                ELSE IF doc.lines[k].op = "fill"
                THEN {<<x, y, z>> : x \in Min(doc.lines[k].p1[1], doc.lines[k].p2[1])
                                            ..Max(doc.lines[k].p1[1], doc.lines[k].p2[1]),
                                    y \in Min(doc.lines[k].p1[2], doc.lines[k].p2[2])
                                            ..Max(doc.lines[k].p1[2], doc.lines[k].p2[2]),
                                    z \in Min(doc.lines[k].p1[3], doc.lines[k].p2[3])
                                            ..Max(doc.lines[k].p1[3], doc.lines[k].p2[3])}
                ELSE {} : k \in 1..Len(doc.lines)}
    ELSE {<<doc.records[k].X, doc.records[k].Y, doc.records[k].Z>> : k \in 1..Len(doc.records)}

\* C11: after a successful parse of a record or line file, originalSize is
\* max - min + 1 on each axis over the positions observed in the file, and
\* the local coordinates of every block lie in [0, originalSize)
C11_BoundingBox ==
    Sparse =>
        LET P == ObservedPositions
            lo(a) == CHOOSE v \in {p[a] : p \in P} : \A q \in P : v <= q[a]
            hi(a) == CHOOSE v \in {p[a] : p \in P} : \A q \in P : v >= q[a]
        IN /\ doc.originalSize = SizeOf(hi(1) - lo(1) + 1, hi(2) - lo(2) + 1, hi(3) - lo(3) + 1)
           /\ \A b \in 1..Len(doc.blocks) :
                 /\ doc.blocks[b].LocalX \in 0..(doc.originalSize.Width - 1)
                 /\ doc.blocks[b].LocalY \in 0..(doc.originalSize.Height - 1)
                 /\ doc.blocks[b].LocalZ \in 0..(doc.originalSize.Length - 1)
           /\ {<<doc.blocks[b].LocalX + lo(1), doc.blocks[b].LocalY + lo(2),
                 doc.blocks[b].LocalZ + lo(3)>> : b \in 1..Len(doc.blocks)} = P

\* a function file with a fill line and a negative coordinate, whose box
\* does not start at the origin
C11_Witness ==
    /\ Sparse
    /\ doc.variant = "MCFunction"
    /\ \E k \in 1..Len(doc.lines) : doc.lines[k].op = "fill"
    /\ doc.origin[1] < 0
    /\ doc.originalSize.Length > 2

\* bit q of the stream of the words emitted so far, followed by the word
\* the writer is filling
StreamBit(q) ==
    IF q \div WordBits < Len(longs)
    THEN (q % WordBits) \in longs[(q \div WordBits) + 1]
    ELSE (q % WordBits) \in w.current

\* C12: entries are packed LSB-first and contiguously: bit k of entry i
\* (from 0) is bit i * b + k of the stream of emitted words, so an entry
\* that straddles a word has its low bits at the top of one word and its
\* high bits at the bottom of the next; the stream holds no other bit; Get
\* reads the entries back from those places; and the indices 5, 10, 15, 0
\* at 4 bits make the word 4005.
C12_PackedLSBFirst ==
    LET b == BitsPerBlock(paletteSize)
        EntryBits(v) == {k \in 0..(b - 1) : (v \div Pow2(k)) % 2 = 1}
    IN cpc # "idle" =>
         /\ \A i \in 1..written :
               {k \in 0..(b - 1) : StreamBit((i - 1) * b + k)} = EntryBits(entries[i])
         /\ \A j \in 1..Len(longs) :
               \A q \in longs[j] : (j - 1) * WordBits + q < written * b
         /\ \A q \in w.current : Len(longs) * WordBits + q < written * b
         /\ cpc \in {"decode", "done"} =>
               \A i \in 1..Len(entries) :
                  Get(longs, Len(entries), b, i - 1) = EntryBits(entries[i])
         /\ (entries = NibbleEntries /\ paletteSize = 16 /\ written = 4) =>
               ToInt(IF longs = <<>> THEN w.current ELSE longs[1]) = 4005

\* a nonzero entry lies across two emitted words, with bits in both
C12_Witness ==
    LET b == BitsPerBlock(paletteSize)
    IN /\ cpc = "decode"
       /\ \E i \in 1..Len(entries) :
            /\ ((i - 1) * b) \div WordBits < (i * b - 1) \div WordBits
            /\ \E k1, k2 \in U64(entries[i]) :
                  ((i - 1) * b + k1) \div WordBits < ((i - 1) * b + k2) \div WordBits

(***************************************************************************)
(* The writer under a caller that may finish after any number of entries   *)
(***************************************************************************)
ExpectedLongs == 0..3

\* Finish(expectedLongs) after the entries written so far
FinishCall ==
    /\ cpc = "encode"
    /\ \E expectedLongs \in ExpectedLongs :
          LET f == Finish([w |-> w, out |-> longs], expectedLongs)
          IN /\ w' = f.ws.w
             /\ longs' = f.ws.out
             /\ fin' = [expectedLongs |-> expectedLongs, err |-> f.err]
    /\ cpc' = "finished"
    /\ UNCHANGED <<entries, paletteSize, written, br, decoded>>
    /\ UNCHANGED <<docVars, box, rt, seg, reg, conv, fh, loop, trunc, pal, flag, mcs>>

NextFinish == EncodeEntry \/ FinishCall

SpecFinish == InitCodec /\ [][NextFinish]_vars

\* the least n with n * 64 >= bits
CeilWords(bits) == CHOOSE n \in 0..bits : n * WordBits >= bits /\ (n = 0 \/ (n - 1) * WordBits < bits)

\* C13: after N entries of width b and Finish, exactly ceil(N * b / 64)
\* words have been emitted; Finish fails exactly when the number of emitted
\* words differs from the expected one, so it succeeds for the count
\* FromMCWorld computes.
C13_FinishChecksWordCount ==
    cpc = "finished" =>
        /\ Len(longs) = CeilWords(written * w.bitsPerBlock)
        /\ w.longCount = Len(longs)
        /\ fin.err <=> (Len(longs) # fin.expectedLongs)
        /\ fin.expectedLongs = NumLongs(written, BitsPerBlock(paletteSize)) => ~fin.err

\* Finish flushed a partly filled second word and reported a mismatch with
\* an expected count of one word
C13_Witness ==
    /\ cpc = "finished"
    /\ Len(longs) = 2
    /\ (written * w.bitsPerBlock) % WordBits # 0
    /\ fin.expectedLongs = 1
    /\ fin.err

(***************************************************************************)
(* FromMCWorld: the region between two points of a world                   *)
(***************************************************************************)
\* mod of the export code: the remainder of the floored division
mod(a, b) == floorMod(a, b)

startBlockPos(point1BlockPos, point2BlockPos) ==
    [a \in 1..3 |-> Min(point1BlockPos[a], point2BlockPos[a])]

endBlockPos(point1BlockPos, point2BlockPos) ==
    [a \in 1..3 |-> Max(point1BlockPos[a], point2BlockPos[a])]

\* the first and the last sub-chunk index the loops of a variant run over on
\* an axis whose block coordinates are lo..hi
SubChunkRange(variant, lo, hi) ==
    IF variant = "IBImport"
    THEN <<floorDiv(lo, 16), floorDiv(hi, 16)>>
    ELSE <<GoDiv(lo - mod(lo, 16), 16), GoDiv(hi + mod(hi, 16) + 15, 16)>>

\* the part of lo..hi inside sub-chunk sc of an axis, ascending; empty when
\* effectiveWorldStart > effectiveWorldEnd
Effective(sc, lo, hi) ==
    LET a == Max(sc * 16, lo)
        b == Min(sc * 16 + 15, hi)
    IN IF a > b THEN <<>> ELSE [i \in 1..(b - a + 1) |-> a + i - 1]

\* the coordinates of an axis in the order of a loop over the sub-chunks
\* first..last with, inside it, a loop over the effective part of each
AxisCoords(first, last, lo, hi) ==
    Concat([k \in 1..(last - first + 1) |-> Effective(first + k - 1, lo, hi)])

\* three nested loops, A outermost: the positions <<x, y, z>> in loop order,
\* where axes names the axis of A, of B and of C
Nested(axes, A, B, C) ==
    [i \in 1..(Len(A) * Len(B) * Len(C)) |->
        LET a == A[((i - 1) \div (Len(B) * Len(C))) + 1]
            b == B[(((i - 1) \div Len(C)) % Len(B)) + 1]
            c == C[((i - 1) % Len(C)) + 1]
        IN [n \in 1..3 |-> IF axes[1] = n THEN a ELSE IF axes[2] = n THEN b ELSE c]]

\* ---- the world
SubChunkOf(pos) == [a \in 1..3 |-> floorDiv(pos[a], 16)]

\* world.LoadSubChunk returns nil
IsNil(world, sc) == world.holes /\ sc[1] = 0

\* subChunk.Block of a loaded sub-chunk, air in one created for a nil one
BlockAt(world, pos) ==
    IF world.air \/ IsNil(world, SubChunkOf(pos)) THEN AirRuntimeID
    ELSE <<AirRuntimeID, 17, 35>>[((pos[1] + 2 * pos[2] + pos[3] + world.seed) % 3) + 1]

\* the block entities world.LoadNBT returns that lie in the region
RegionNBTs(world, lo, hi) == IF world.entities THEN {lo, hi} ELSE {}

\* ---- the units of work of each variant, in order: the voxels a unit
\* visits, the sub-chunks it loads, and whether progressCallback is called
Unit(pass, voxels, loads, progress) ==
    [pass |-> pass, voxels |-> voxels, loads |-> loads, progress |-> progress]

LoadsOf(voxels) == {SubChunkOf(voxels[i]) : i \in 1..Len(voxels)}

\* Schematic and Litematic: one unit per sub-chunk layer of Y; y, z, x loops
LayerUnitsY(pass, progress, lo, hi, rx, ry, rz) ==
    [k \in 1..(ry[2] - ry[1] + 1) |->
        LET voxels == Nested(<<2, 3, 1>>, Effective(ry[1] + k - 1, lo[2], hi[2]),
                             AxisCoords(rz[1], rz[2], lo[3], hi[3]),
                             AxisCoords(rx[1], rx[2], lo[1], hi[1]))
        IN Unit(pass, voxels, LoadsOf(voxels),
                progress)]

\* MCStructure: one unit per sub-chunk layer of X; x, y, z loops
LayerUnitsX(lo, hi, rx, ry, rz) ==
    [k \in 1..(rx[2] - rx[1] + 1) |->
        LET voxels == Nested(<<1, 2, 3>>, Effective(rx[1] + k - 1, lo[1], hi[1]),
                             AxisCoords(ry[1], ry[2], lo[2], hi[2]),
                             AxisCoords(rz[1], rz[2], lo[3], hi[3]))
        IN Unit(1, voxels, LoadsOf(voxels), TRUE)]

\* the sub-chunks of the ranges, the loops nested as axes says
SubChunkSeq(axes, rx, ry, rz) ==
    LET r == <<rx, ry, rz>>
        S(n) == [i \in 1..(r[n][2] - r[n][1] + 1) |-> r[n][1] + i - 1]
    IN Nested(axes, S(axes[1]), S(axes[2]), S(axes[3]))

\* BDX: one unit per sub-chunk, z, x, y loops over the sub-chunks; a nil or
\* empty sub-chunk and one outside the region are skipped before the call
BDXUnits(world, lo, hi, rx, ry, rz) ==
    LET scs == SubChunkSeq(<<3, 1, 2>>, rx, ry, rz)
    IN [k \in 1..Len(scs) |->
          LET sc == scs[k]
              voxels == Nested(<<1, 2, 3>>, Effective(sc[1], lo[1], hi[1]),
                               Effective(sc[2], lo[2], hi[2]),
                               Effective(sc[3], lo[3], hi[3]))
          IN IF IsNil(world, sc) \/ world.air \/ voxels = <<>>
             THEN Unit(1, <<>>, {sc}, FALSE)
             ELSE Unit(1, voxels, {sc}, TRUE)]

\* IBImport: one unit per sub-chunk, y, z, x loops over the sub-chunks and
\* over the blocks; every unit ends with the call
IBImportUnits(world, lo, hi, rx, ry, rz) ==
    LET scs == SubChunkSeq(<<2, 3, 1>>, rx, ry, rz)
    IN [k \in 1..Len(scs) |->
          LET sc == scs[k]
              voxels == Nested(<<2, 3, 1>>, Effective(sc[2], lo[2], hi[2]),
                               Effective(sc[3], lo[3], hi[3]),
                               Effective(sc[1], lo[1], hi[1]))
          IN IF voxels = <<>> THEN Unit(1, <<>>, {}, TRUE)
             ELSE IF IsNil(world, sc) THEN Unit(1, <<>>, {sc}, TRUE)
             ELSE Unit(1, voxels, {sc}, TRUE)]

UnitsOf(variant, world, lo, hi, rx, ry, rz) ==
    CASE variant = "Schematic" ->
            LayerUnitsY(1, TRUE, lo, hi, rx, ry, rz) \o LayerUnitsY(2, TRUE, lo, hi, rx, ry, rz)
      [] variant = "Litematic" ->
            LayerUnitsY(1, FALSE, lo, hi, rx, ry, rz) \o LayerUnitsY(2, TRUE, lo, hi, rx, ry, rz)
      [] variant = "MCStructure" -> LayerUnitsX(lo, hi, rx, ry, rz)
      [] variant = "BDX" -> BDXUnits(world, lo, hi, rx, ry, rz)
      [] variant = "IBImport" -> IBImportUnits(world, lo, hi, rx, ry, rz)

\* the argument of startCallback
TotalUnits(variant, rx, ry, rz) ==
    LET nx == rx[2] - rx[1] + 1
        ny == ry[2] - ry[1] + 1
        nz == rz[2] - rz[1] + 1
    IN CASE variant = "Schematic" -> ny * 2
         [] variant = "Litematic" -> ny
         [] variant = "MCStructure" -> nx
         [] variant = "BDX" -> nx * ny * nz
         [] variant = "IBImport" -> nx * nz * ny

\* ---- what a visited block does to the palette and to the output
NoPalette == [id \in {} |-> 0]

\* an allocation that does not consult the map first
LitematicAllocateAlways(st, runtimeID) ==
    [st EXCEPT !.palette = (runtimeID :> Len(st.paletteOrder)) @@ @,
               !.paletteOrder = Append(@, runtimeID)]

\* first Litematic pass: a runtime id not in the map gets the next index
LitematicAllocate(st, runtimeID) ==
    IF runtimeID \in DOMAIN st.palette THEN st
    ELSE [st EXCEPT !.palette = (runtimeID :> Len(st.paletteOrder)) @@ @,
                    !.paletteOrder = Append(@, runtimeID)]

\* second Litematic pass: the index of the runtime id, that of air if none
LitematicIndex(st, runtimeID) ==
    LET index == IF runtimeID \in DOMAIN st.palette THEN st.palette[runtimeID]
                 ELSE st.palette[AirRuntimeID]
    IN [st EXCEPT !.out = Append(@, index)]

\* MCStructure: palette.Get, then palette.Set with palette.Len() for a new
\* runtime id, then the index is written
MCStructureIndex(st, runtimeID) ==
    IF runtimeID \in DOMAIN st.palette
    THEN [st EXCEPT !.out = Append(@, st.palette[runtimeID])]
    ELSE LET index == Cardinality(DOMAIN st.palette)
         IN [st EXCEPT !.palette = (runtimeID :> index) @@ @,
                       !.paletteOrder = Append(@, runtimeID),
                       !.out = Append(@, index)]

\* BDX movePos and placeBlock of a block that is not air
BDXPlaceBlock(st, blockPos, blockRuntimeID) ==
    IF blockRuntimeID = AirRuntimeID THEN st
    ELSE
      LET move == [a \in 1..3 |-> blockPos[a] - st.cursor[a]]
          moved == [st EXCEPT !.out = IF move = <<0, 0, 0>> THEN @
                                      ELSE Append(@, [op |-> "move", by |-> move]),
                              !.cursor = blockPos]
      IN IF blockRuntimeID \in DOMAIN moved.palette
         THEN [moved EXCEPT !.out = Append(@, [op |-> "PlaceBlockWithBlockStates",
                                               ids |-> moved.palette[blockRuntimeID]])]
         ELSE LET blockConstantStringID ==
                      (((Cardinality(DOMAIN moved.palette)) % 65536) * 2) % 65536
                  ids == <<blockConstantStringID, (blockConstantStringID + 1) % 65536>>
              IN [moved EXCEPT
                    !.out = @ \o <<[op |-> "CreateConstantString", id |-> ids[1],
                                    of |-> <<"name", blockRuntimeID>>],
                                   [op |-> "CreateConstantString", id |-> ids[2],
                                    of |-> <<"states", blockRuntimeID>>],
                                   [op |-> "PlaceBlockWithBlockStates", ids |-> ids]>>,
                    !.palette = (blockRuntimeID :> ids) @@ @,
                    !.paletteOrder = Append(@, blockRuntimeID)]

\* the block at pos of the world goes through the variant's loop body
VisitBlock(variant, pass, world, lo, st, pos) ==
    LET runtimeID == BlockAt(world, pos)
    IN CASE variant = "Schematic" ->
              [st EXCEPT !.out = Append(@, IF pass = 1
                                           THEN RuntimeIDToSchematic(runtimeID).block
                                           ELSE RuntimeIDToSchematic(runtimeID).value)]
         [] variant = "Litematic" ->
              IF pass = 1 THEN LitematicAllocate(st, runtimeID)
              ELSE LitematicIndex(st, runtimeID)
         [] variant = "MCStructure" -> MCStructureIndex(st, runtimeID)
         [] variant = "BDX" -> BDXPlaceBlock(st, pos, runtimeID)
         [] variant = "IBImport" ->
              IF runtimeID = AirRuntimeID THEN st
              ELSE [st EXCEPT !.out = Append(@, [op |-> "setblock",
                                                 at |-> [a \in 1..3 |-> pos[a] - lo[a]],
                                                 block |-> runtimeID])]

RECURSIVE VisitUnit(_, _, _, _, _, _)
VisitUnit(variant, world, lo, st, unit, k) ==
    IF k > Len(unit.voxels) THEN st
    ELSE VisitUnit(variant, world, lo,
                   VisitBlock(variant, unit.pass, world, lo, st, unit.voxels[k]), unit, k + 1)

\* ---- the conversion, one unit of work per step
RegionVariants == {"Schematic", "Litematic", "MCStructure", "BDX", "IBImport"}
RegionCorners == {<<0, 0, 0>>, <<15, -1, -17>>, <<-1, 15, 0>>, <<-16, 0, 15>>}
RegionExtents == {<<0, 0, 0>>, <<1, 1, 1>>, <<2, 0, 1>>, <<0, 1, 2>>}
RegionWorlds ==
    {[seed |-> 0, holes |-> FALSE, air |-> FALSE, entities |-> FALSE],
     [seed |-> 1, holes |-> FALSE, air |-> FALSE, entities |-> TRUE],
     [seed |-> 2, holes |-> TRUE, air |-> FALSE, entities |-> FALSE],
     [seed |-> 0, holes |-> FALSE, air |-> TRUE, entities |-> FALSE]}

NoRun == [out |-> <<>>, paletteOrder |-> <<>>, nbts |-> <<>>]

InitRegion ==
    /\ IdleOutside({"reg"})
    /\ \E variant \in RegionVariants, world \in RegionWorlds, c \in RegionCorners,
          e \in RegionExtents, swap \in BOOLEAN :
          LET far == [a \in 1..3 |-> c[a] + e[a]]
          IN reg = [pc |-> "world", variant |-> variant, world |-> world,
                    point1 |-> IF swap THEN far ELSE c, point2 |-> IF swap THEN c ELSE far,
                    run |-> 1, first |-> NoRun]

\* FromMCWorld up to the first loop: the corners, the sub-chunk ranges and
\* startCallback
RegionStart ==
    /\ reg.pc = "world"
    /\ LET lo == startBlockPos(reg.point1, reg.point2)
           hi == endBlockPos(reg.point1, reg.point2)
           rx == SubChunkRange(reg.variant, lo[1], hi[1])
           ry == SubChunkRange(reg.variant, lo[2], hi[2])
           rz == SubChunkRange(reg.variant, lo[3], hi[3])
       IN reg' = [pc |-> "running", variant |-> reg.variant, world |-> reg.world,
                  point1 |-> reg.point1, point2 |-> reg.point2,
                  run |-> reg.run, first |-> reg.first,
                  lo |-> lo, hi |-> hi, ranges |-> <<rx, ry, rz>>,
                  units |-> UnitsOf(reg.variant, reg.world, lo, hi, rx, ry, rz),
                  next |-> 1,
                  calls |-> <<[f |-> "onStart", n |-> TotalUnits(reg.variant, rx, ry, rz)]>>,
                  st |-> [palette |-> IF reg.variant = "Litematic"
                                      THEN (AirRuntimeID :> 0) ELSE NoPalette,
                          paletteOrder |-> IF reg.variant = "Litematic"
                                           THEN <<AirRuntimeID>> ELSE <<>>,
                          out |-> <<>>,
                          cursor |-> <<rx[1], ry[1], rz[1]>>],
                  visit |-> <<<<>>, <<>>>>, loaded |-> {}, nbts |-> <<>>]
    /\ UNCHANGED <<codecVars, docVars, box, rt, seg, conv, fh, loop, trunc, pal, flag, mcs>>

\* one unit of work: a layer of sub-chunks or a sub-chunk, then the callback
RegionUnit ==
    /\ reg.pc = "running"
    /\ reg.next <= Len(reg.units)
    /\ LET unit == reg.units[reg.next]
       IN reg' = [reg EXCEPT
                    !.st = VisitUnit(reg.variant, reg.world, reg.lo, @, unit, 1),
                    !.visit[unit.pass] = @ \o unit.voxels,
                    !.loaded = @ \cup unit.loads,
                    !.calls = IF unit.progress THEN Append(@, [f |-> "onProgress"]) ELSE @,
                    !.next = @ + 1]
    /\ UNCHANGED <<codecVars, docVars, box, rt, seg, conv, fh, loop, trunc, pal, flag, mcs>>

\* after the loops: MCStructure ranges over the map of block entities, whose
\* iteration order the language leaves open; then the conversion returns
RegionReturn ==
    /\ reg.pc = "running"
    /\ reg.next > Len(reg.units)
    /\ LET keys == IF reg.variant = "MCStructure"
                   THEN {((p[1] - reg.lo[1]) * (reg.hi[2] - reg.lo[2] + 1)
                             + (p[2] - reg.lo[2])) * (reg.hi[3] - reg.lo[3] + 1)
                            + (p[3] - reg.lo[3]) : p \in RegionNBTs(reg.world, reg.lo, reg.hi)}
                   ELSE {}
       IN \E order \in [1..Cardinality(keys) -> keys] :
             /\ \A i, j \in DOMAIN order : order[i] = order[j] => i = j
             /\ reg' = [reg EXCEPT !.pc = "done", !.nbts = order]
    /\ UNCHANGED <<codecVars, docVars, box, rt, seg, conv, fh, loop, trunc, pal, flag, mcs>>

\* the conversion is run again on the same world and the same points
RegionRerun ==
    /\ reg.pc = "done"
    /\ reg.run = 1
    /\ reg' = [pc |-> "world", variant |-> reg.variant, world |-> reg.world,
               point1 |-> reg.point1, point2 |-> reg.point2, run |-> 2,
               first |-> [out |-> reg.st.out, paletteOrder |-> reg.st.paletteOrder,
                          nbts |-> reg.nbts]]
    /\ UNCHANGED <<codecVars, docVars, box, rt, seg, conv, fh, loop, trunc, pal, flag, mcs>>

NextRegion == RegionStart \/ RegionUnit \/ RegionReturn \/ RegionRerun

SpecRegion == InitRegion /\ [][NextRegion]_vars

\* C14: the sub-chunks FromMCWorld runs over on each axis are exactly
\* floorDiv(min, 16) .. floorDiv(max, 16) of the normalized corners
C14_FloorDivRanges ==
    reg.pc \in {"running", "done"} =>
        \A a \in 1..3 : reg.ranges[a] = <<floorDiv(reg.lo[a], 16), floorDiv(reg.hi[a], 16)>>

\* the elements of a sequence in the order of their first occurrence
RECURSIVE FirstSeen(_)
FirstSeen(s) ==
    IF s = <<>> THEN <<>>
    ELSE LET init == FirstSeen(SubSeq(s, 1, Len(s) - 1))
         IN IF s[Len(s)] \in Range(init) THEN init ELSE Append(init, s[Len(s)])

\* the runtime ids the palette of the variant has been asked about so far
PaletteRequests ==
    LET ids == [i \in 1..Len(reg.visit[1]) |-> BlockAt(reg.world, reg.visit[1][i])]
    IN CASE reg.variant = "Litematic" -> <<AirRuntimeID>> \o ids
         [] reg.variant = "BDX" -> SelectSeq(ids, LAMBDA id : id # AirRuntimeID)
         [] OTHER -> ids

\* C15: palette indices are allocated in first-seen order: at every point
\* the map from runtime id to index is injective, its indices are exactly
\* 0..n-1 in the order in which the runtime ids were first met, and no
\* palette entry has been emitted twice (for BDX: the two constant strings
\* of a runtime id are created once, with the ids the palette keeps)
C15_PaletteFirstSeen ==
    (reg.pc \in {"running", "done"} /\ reg.variant \in {"Litematic", "MCStructure", "BDX"}) =>
        LET palette == reg.st.palette
            paletteOrder == reg.st.paletteOrder
            n == Cardinality(DOMAIN palette)
            Index(id) == IF reg.variant = "BDX" THEN palette[id][1] \div 2 ELSE palette[id]
            created == SelectSeq(reg.st.out, LAMBDA c : reg.variant = "BDX"
                                                        /\ c.op = "CreateConstantString")
        IN /\ \A a, b \in DOMAIN palette : Index(a) = Index(b) => a = b
           /\ {Index(a) : a \in DOMAIN palette} = 0..(n - 1)
           /\ paletteOrder = FirstSeen(PaletteRequests)
           /\ Len(paletteOrder) = n
           /\ \A i \in 1..n : Index(paletteOrder[i]) = i - 1
           /\ reg.variant = "BDX" =>
                 /\ \A a \in DOMAIN palette :
                       palette[a] = <<2 * Index(a), 2 * Index(a) + 1>>
                 /\ Len(created) = 2 * n
                 /\ \A i \in 1..n :
                       /\ created[2 * i - 1].of = <<"name", paletteOrder[i]>>
                       /\ created[2 * i].of = <<"states", paletteOrder[i]>>
                       /\ created[2 * i - 1].id = palette[paletteOrder[i]][1]
                       /\ created[2 * i].id = palette[paletteOrder[i]][2]

\* a finished BDX export that met two runtime ids, one of them more than
\* once
C15_Witness ==
    /\ reg.pc = "done"
    /\ reg.variant = "BDX"
    /\ Cardinality(DOMAIN reg.st.palette) = 2
    /\ Len(SelectSeq(reg.st.out, LAMBDA c : c.op = "PlaceBlockWithBlockStates")) > 2

\* the blocks of the region sorted by the loop order of the variant
RECURSIVE Sorted(_, _)
Sorted(cells, axes) ==
    IF cells = {} THEN <<>>
    ELSE LET Before(p, q) ==
                 \/ p[axes[1]] < q[axes[1]]
                 \/ p[axes[1]] = q[axes[1]] /\ p[axes[2]] < q[axes[2]]
                 \/ p[axes[1]] = q[axes[1]] /\ p[axes[2]] = q[axes[2]] /\ p[axes[3]] <= q[axes[3]]
             p0 == CHOOSE p \in cells : \A q \in cells : Before(p, q)
         IN <<p0>> \o Sorted(cells \ {p0}, axes)

RegionCells ==
    {p \in (reg.lo[1]..reg.hi[1]) \X (reg.lo[2]..reg.hi[2]) \X (reg.lo[3]..reg.hi[3]) : TRUE}

\* C16: the passes of FromMCWorld visit the blocks of the region in one
\* fixed order that depends on the bounds of the region only (for Schematic
\* and Litematic y, then z, then x; for MCStructure x, then y, then z), the
\* second pass in the order of the first, and running the conversion again
\* on the same world and the same points gives the same output
C16_SameOrderSameOutput ==
    /\ (reg.pc = "done" /\ reg.variant \in {"Schematic", "Litematic"}) =>
          /\ reg.visit[1] = Sorted(RegionCells, <<2, 3, 1>>)
          /\ reg.visit[2] = reg.visit[1]
    /\ (reg.pc = "done" /\ reg.variant = "MCStructure") =>
          reg.visit[1] = Sorted(RegionCells, <<1, 2, 3>>)
    /\ (reg.pc = "running" /\ reg.variant \in {"Schematic", "Litematic"}) =>
          IsPrefix(reg.visit[2], reg.visit[1])
    /\ (reg.pc = "done" /\ reg.run = 2) =>
          /\ reg.st.out = reg.first.out
          /\ reg.st.paletteOrder = reg.first.paletteOrder
          /\ reg.nbts = reg.first.nbts

\* C17: onStart(totalUnits) is called once, before any onProgress, and a
\* conversion that has returned has made exactly totalUnits onProgress calls
C17_StartThenTotalUnitsProgress ==
    reg.pc \in {"running", "done"} =>
        /\ Len(reg.calls) >= 1
        /\ reg.calls[1].f = "onStart"
        /\ \A i \in 2..Len(reg.calls) : reg.calls[i].f = "onProgress"
        /\ Len(reg.calls) - 1 <= reg.calls[1].n
        /\ reg.pc = "done" => Len(reg.calls) - 1 = reg.calls[1].n

(***************************************************************************)
(* ToMCWorld: the layers of a parsed document and the progress callbacks   *)
(***************************************************************************)
ConvVariants == {"Schematic", "MCStructure", "Litematic"}
\* the height of a Schematic or a Litematic, the width of an MCStructure
ConvExtents == {0, 1, 16, 17, 33}

\* the number of layers of 16 blocks: subChunkYNum, and for MCStructure the
\* chunk count along X of the original size
LayerCount(extent) == GoDiv(extent + 15, 16)

InitToMCWorld ==
    /\ IdleOutside({"conv"})
    /\ \E variant \in ConvVariants, extent \in ConvExtents :
          /\ variant = "Litematic" \/ extent > 0
          /\ conv = [pc |-> "parsed", variant |-> variant, extent |-> extent,
                     num |-> 0, index |-> 0, calls |-> <<>>, err |-> FALSE]

\* ToMCWorld up to its loop: the number of layers, 16 blocks each, and
\* startCallback; a Litematic without blocks returns at once
ToMCWorldStart ==
    /\ conv.pc = "parsed"
    /\ LET subChunkYNum == LayerCount(conv.extent)
       IN IF conv.variant = "Litematic" /\ conv.extent = 0
          THEN conv' = [conv EXCEPT !.pc = "returned",
                           !.calls = <<[f |-> "onStart", n |-> 0, thread |-> "caller",
                                        state |-> "returned"]>>]
          ELSE conv' = [conv EXCEPT !.pc = "loop", !.num = subChunkYNum,
                           !.calls = <<[f |-> "onStart", n |-> subChunkYNum,
                                        thread |-> "caller", state |-> "returned"]>>]
    /\ UNCHANGED <<codecVars, docVars, box, rt, seg, reg, fh, loop, trunc, pal, flag, mcs>>

\* one layer: its blocks are read and its sub-chunks saved, then
\* "go progressCallback()" starts a goroutine; a failed read or save returns
ToMCWorldLayer ==
    /\ conv.pc = "loop"
    /\ conv.index < conv.num
    /\ \E ok \in BOOLEAN :
          IF ok
          THEN conv' = [conv EXCEPT !.index = @ + 1,
                           !.calls = Append(@, [f |-> "onProgress", n |-> 0,
                                                thread |-> "goroutine",
                                                state |-> "started"])]
          ELSE conv' = [conv EXCEPT !.pc = "returned", !.err = TRUE]
    /\ UNCHANGED <<codecVars, docVars, box, rt, seg, reg, fh, loop, trunc, pal, flag, mcs>>

ToMCWorldReturn ==
    /\ conv.pc = "loop"
    /\ conv.index = conv.num
    /\ conv' = [conv EXCEPT !.pc = "returned"]
    /\ UNCHANGED <<codecVars, docVars, box, rt, seg, reg, fh, loop, trunc, pal, flag, mcs>>

\* the scheduler runs a started goroutine: progressCallback is entered
CallbackRun ==
    /\ \E i \in 1..Len(conv.calls) :
          /\ conv.calls[i].state = "started"
          /\ conv' = [conv EXCEPT !.calls[i].state = "running"]
    /\ UNCHANGED <<codecVars, docVars, box, rt, seg, reg, fh, loop, trunc, pal, flag, mcs>>

\* progressCallback returns and its goroutine ends
CallbackReturn ==
    /\ \E i \in 1..Len(conv.calls) :
          /\ conv.calls[i].state = "running"
          /\ conv' = [conv EXCEPT !.calls[i].state = "returned"]
    /\ UNCHANGED <<codecVars, docVars, box, rt, seg, reg, fh, loop, trunc, pal, flag, mcs>>

NextToMCWorld ==
    ToMCWorldStart \/ ToMCWorldLayer \/ ToMCWorldReturn \/ CallbackRun \/ CallbackReturn

SpecToMCWorld == InitToMCWorld /\ [][NextToMCWorld]_vars

\* C18: every progress callback runs on the thread that called the
\* conversion, and when the conversion has returned every callback it
\* started has returned
C18_CallbacksSynchronous ==
    /\ conv.pc # "idle" =>
          \A i \in 1..Len(conv.calls) : conv.calls[i].thread = "caller"
    /\ conv.pc = "returned" =>
          \A i \in 1..Len(conv.calls) : conv.calls[i].state = "returned"

(***************************************************************************)
(* The handles of a read pass                                              *)
(***************************************************************************)
MaxCalls == 2

I(i, h, on) == [i |-> i, h |-> h, on |-> on]

\* Schematic.GetChunks: the file is opened again and read through a gzip
\* reader; with the Data tag first both tags are read in one pass; with the
\* Blocks tag first the gzip reader is closed after the Blocks tag, the
\* stored file is rewound and a second gzip reader over it reads the Data tag
SchematicGetChunksHandles(blocksFirst) ==
    <<I("open", "file", "os"), I("defer", "file", ""), I("new", "gzipReader", "file"),
      I("defer", "gzipReader", "")>>
    \o IF blocksFirst
       THEN <<I("read", "gzipReader", ""), I("read", "gzipReader", ""),
              I("close", "gzipReader", ""),
              I("seek", "s.file", ""), I("new", "gzipReader2", "s.file"),
              I("read", "gzipReader2", ""), I("read", "gzipReader2", "")>>
       ELSE <<I("read", "gzipReader", ""), I("read", "gzipReader", ""),
              I("read", "gzipReader", ""), I("read", "gzipReader", "")>>

SchematicCountHandles ==
    <<I("open", "file", "os"), I("defer", "file", ""), I("new", "gzipReader", "file"),
      I("defer", "gzipReader", ""), I("read", "gzipReader", ""), I("read", "gzipReader", "")>>

\* BDX.GetChunks and BDX.CountNonAirBlocks: the file is opened again, the
\* header is read from it and the rest through a brotli reader over it
BDXHandles ==
    <<I("open", "file", "os"), I("defer", "file", ""), I("read", "file", ""),
      I("wrap", "brw", "file"), I("read", "brw", ""), I("read", "brw", "")>>

HandlePrograms ==
    {SchematicGetChunksHandles(TRUE), SchematicGetChunksHandles(FALSE),
     SchematicCountHandles, BDXHandles}

\* the file a handle reads from in the end
RECURSIVE FileUnder(_, _)
FileUnder(handles, h) ==
    IF h \in {"file", "s.file"} THEN h ELSE FileUnder(handles, handles[h].on)

InitHandles ==
    /\ IdleOutside({"fh"})
    /\ fh = [pc |-> "parsed", prog |-> <<>>, ip |-> 1, calls |-> 0, offset |-> "parsed",
             handles |-> ("s.file" :> [state |-> "open", on |-> "os", closer |-> TRUE]),
             defers |-> <<>>, readFrom |-> {}, err |-> FALSE]

\* a read pass starts: only the handle FromFile stored exists, at the file
\* offset the last use of it left
HandlesCall ==
    /\ fh.pc \in {"parsed", "returned"}
    /\ fh.calls < MaxCalls
    /\ \E prog \in HandlePrograms :
          fh' = [pc |-> "running", prog |-> prog, ip |-> 1, calls |-> fh.calls + 1,
                 offset |-> fh.offset,
                 handles |-> ("s.file" :> fh.handles["s.file"]),
                 defers |-> <<>>, readFrom |-> {}, err |-> FALSE]
    /\ UNCHANGED <<codecVars, docVars, box, rt, seg, reg, conv, loop, trunc, pal, flag, mcs>>

\* the next statement of the pass; os.Open, a new gzip reader and a read can
\* fail, and then the function returns
HandlesStep ==
    /\ fh.pc = "running"
    /\ fh.ip <= Len(fh.prog)
    /\ LET in == fh.prog[fh.ip]
           done == [fh EXCEPT !.ip = @ + 1]
       IN \E ok \in BOOLEAN :
             IF ~ok /\ in.i \in {"open", "new", "read"}
             THEN fh' = [fh EXCEPT !.pc = "returning", !.err = TRUE]
             ELSE /\ ok
                  /\ fh' = CASE in.i \in {"open", "new"} ->
                                  [done EXCEPT !.handles =
                                      (in.h :> [state |-> "open", on |-> in.on,
                                                closer |-> TRUE]) @@ @]
                             [] in.i = "wrap" ->
                                  [done EXCEPT !.handles =
                                      (in.h :> [state |-> "open", on |-> in.on,
                                                closer |-> FALSE]) @@ @]
                             [] in.i = "defer" ->
                                  [done EXCEPT !.defers = <<in.h>> \o @]
                             [] in.i = "close" ->
                                  [done EXCEPT !.handles[in.h].state = "closed"]
                             [] in.i = "read" ->
                                  [done EXCEPT
                                      !.readFrom = @ \cup {FileUnder(fh.handles, in.h)},
                                      !.offset = IF FileUnder(fh.handles, in.h) = "s.file"
                                                 THEN "read" ELSE @]
                             [] in.i = "seek" -> [done EXCEPT !.offset = "start"]
    /\ UNCHANGED <<codecVars, docVars, box, rt, seg, reg, conv, loop, trunc, pal, flag, mcs>>

\* the function returns: the deferred Close calls run, the last one first
HandlesReturn ==
    /\ \/ fh.pc = "returning"
       \/ fh.pc = "running" /\ fh.ip > Len(fh.prog)
    /\ fh' = [fh EXCEPT !.pc = "returned",
                        !.handles = [h \in DOMAIN fh.handles |->
                                        IF h \in Range(fh.defers)
                                        THEN [fh.handles[h] EXCEPT !.state = "closed"]
                                        ELSE fh.handles[h]],
                        !.defers = <<>>]
    /\ UNCHANGED <<codecVars, docVars, box, rt, seg, reg, conv, loop, trunc, pal, flag, mcs>>

NextHandles == HandlesCall \/ HandlesStep \/ HandlesReturn

SpecHandles == InitHandles /\ [][NextHandles]_vars

\* C19: a read pass opens its own file and decompression handles, reads
\* through them only and never through the handle the document stores, and
\* has closed every handle it opened when it returns, with or without error
C19_OwnHandlesClosed ==
    /\ fh.pc # "idle" => "s.file" \notin fh.readFrom
    /\ fh.pc = "returned" =>
          \A h \in DOMAIN fh.handles \ {"s.file"} :
             fh.handles[h].closer => fh.handles[h].state = "closed"

(***************************************************************************)
(* The command loops of BDX over a stream whose reads may fail             *)
(***************************************************************************)
MaxReads == 3

\* what command.ReadCommand returns, call after call: a command, Terminate,
\* or an error that is not io.EOF; after them the stream is at its end
\* (io.EOF on every call) or broken (the same error on every call)
ReadOutcomes == {"command", "Terminate", "error"}
ReadStreams == UNION {[1..n -> ReadOutcomes] : n \in 0..MaxReads}
StreamEnds == {"io.EOF", "error"}
CommandLoops == {"parseCommands", "parseCommandsToChunks", "CountNonAirBlocks"}

InitRead ==
    /\ IdleOutside({"loop"})
    /\ \E f \in CommandLoops, stream \in ReadStreams, end \in StreamEnds :
          loop = [pc |-> "ReadCommand", f |-> f, stream |-> stream, end |-> end,
                  k |-> 1, got |-> "", cmdNum |-> 0]

\* cmd, err := command.ReadCommand(brw)
ReadCommand ==
    /\ loop.pc = "ReadCommand"
    /\ loop' = [loop EXCEPT !.pc = "check",
                            !.got = IF loop.k <= Len(loop.stream)
                                    THEN loop.stream[loop.k] ELSE loop.end,
                            !.k = IF loop.k <= Len(loop.stream) THEN @ + 1 ELSE @]
    /\ UNCHANGED <<codecVars, docVars, box, rt, seg, reg, conv, fh, trunc, pal, flag, mcs>>

\* the checks after the read, with "continue" in place of the return
\* statement that is commented out
CheckContinue ==
    /\ loop.pc = "check"
    /\ loop.got = "error"
    /\ loop' = [loop EXCEPT !.pc = "ReadCommand", !.got = ""]
    /\ UNCHANGED <<codecVars, docVars, box, rt, seg, reg, conv, fh, trunc, pal, flag, mcs>>

\* io.EOF leaves the loop, and so does Terminate except in parseCommands,
\* where "break" leaves the switch only
CheckBreak ==
    /\ loop.pc = "check"
    /\ \/ loop.got = "io.EOF"
       \/ loop.got = "Terminate" /\ loop.f # "parseCommands"
    /\ loop' = [loop EXCEPT !.pc = "returned", !.got = ""]
    /\ UNCHANGED <<codecVars, docVars, box, rt, seg, reg, conv, fh, trunc, pal, flag, mcs>>

\* a command is handled and the loop goes on
CheckCommand ==
    /\ loop.pc = "check"
    /\ \/ loop.got = "command"
       \/ loop.got = "Terminate" /\ loop.f = "parseCommands"
    /\ loop' = [loop EXCEPT !.pc = "ReadCommand", !.got = "", !.cmdNum = @ + 1]
    /\ UNCHANGED <<codecVars, docVars, box, rt, seg, reg, conv, fh, trunc, pal, flag, mcs>>

NextRead == ReadCommand \/ CheckContinue \/ CheckBreak \/ CheckCommand

SpecRead == InitRead /\ [][NextRead]_vars

\* the thread that runs the loop keeps taking steps
SpecReadLive == SpecRead /\ WF_vars(NextRead)

\* C20: the operation terminates on every stream, also on one whose reads
\* keep failing with an error that is not io.EOF
C20_Terminates == <>(loop.pc = "returned")

(***************************************************************************)
(* Read passes over a stream that ends before its declared end             *)
(***************************************************************************)
\* parseCommands over what ReadCommand returns call after call: a command,
\* an error other than io.EOF ("error": the loop continues), or io.EOF
\* (the loop is left); past the last result the stream is at io.EOF.  The
\* function has no path that returns an error.
RECURSIVE CommandsKept(_, _)
CommandsKept(reads, k) ==
    IF k > Len(reads) \/ reads[k].kind = "EOF" THEN <<>>
    ELSE IF reads[k].kind = "error" THEN CommandsKept(reads, k + 1)
    ELSE <<reads[k].cmd>> \o CommandsKept(reads, k + 1)

parseCommands(reads) == [err |-> FALSE, doc |-> BDXFromFile(CommandsKept(reads, 1))]

\* the commands that carry an operand after their opcode byte
HasOperand(cmd) ==
    cmd.op \in {"CreateConstantString", "PlaceBlock", "UseRuntimeIDPool",
                "AddInt8XValue", "AddInt16ZValue"}

\* one segment as beginIBImportSegment and Close leave it in the file
SegmentBytes(payload, key) ==
    encodeIBImportVarIntFixed5(Len(payload)).out \o <<key>>
    \o [i \in 1..Len(payload) |-> ByteXor(payload[i], key, 8)]

SegmentPayloads == {<<>>, <<1, 255>>, <<0, 193, 90>>}

IBImportBodies ==
    {<<p1, p2>> : p1 \in SegmentPayloads \ {<<>>}, p2 \in SegmentPayloads}

BodyBytes(body) == SegmentBytes(body[1], 193) \o SegmentBytes(body[2], 90)

\* the offsets of a body at which one segment ends and the next one starts
Boundaries(body) ==
    {0, Len(SegmentBytes(body[1], 193)), Len(BodyBytes(body))}

InitTrunc ==
    /\ IdleOutside({"trunc"})
    /\ trunc = [pc |-> "new"]

\* the file is opened: in is what the writer stored, cut how much of it the
\* stream yields before it ends (longs, commands, bytes)
TruncOpen ==
    /\ trunc.pc = "new"
    /\ \/ \E d \in LitematicDocs, cut \in 0..2, op \in {"GetChunks", "CountNonAirBlocks"} :
            /\ cut <= d.numLongs
            /\ trunc' = [pc |-> "open", variant |-> "Litematic", op |-> op, in |-> d,
                         cut |-> cut, midValue |-> cut < d.numLongs, end |-> "EOF"]
       \/ \E cmds \in BDXStreams, cut \in 0..9, end \in {"EOF", "error"} :
            /\ cut <= Len(cmds)
            /\ cut < Len(cmds) => HasOperand(cmds[cut + 1])
            /\ trunc' = [pc |-> "open", variant |-> "BDX", op |-> "FromFile", in |-> cmds,
                         cut |-> cut, midValue |-> cut < Len(cmds), end |-> end]
       \/ \E body \in IBImportBodies, cut \in 0..18 :
            /\ cut <= Len(BodyBytes(body))
            /\ trunc' = [pc |-> "open", variant |-> "IBImport", op |-> "FromFile",
                         in |-> body, cut |-> cut,
                         midValue |-> cut \notin Boundaries(body), end |-> "EOF"]
    /\ UNCHANGED <<codecVars, docVars, box, rt, seg, reg, conv, fh, loop, pal, flag, mcs>>

\* what the operation returns over the shortened stream, and whether what it
\* decoded is all of what the whole stream holds
TruncReadOf(t) ==
    CASE t.variant = "Litematic" /\ t.op = "GetChunks" ->
           LET short == [t.in EXCEPT !.longs = SubSeq(@, 1, t.cut)]
               posList == SetToSeq(NearChunks(t.in))
               r == LitematicGetChunks(short, posList)
           IN [err |-> r.err,
               whole |-> ~r.err /\ r.placed = LitematicGetChunks(t.in, posList).placed]
      [] t.variant = "Litematic" /\ t.op = "CountNonAirBlocks" ->
           LET short == [t.in EXCEPT !.longs = SubSeq(@, 1, t.cut)]
               r == LitematicCountNonAirBlocks(short, 0)
           IN [err |-> r.err,
               whole |-> ~r.err /\ r.n = LitematicCountNonAirBlocks(t.in, 0).n]
      [] t.variant = "BDX" ->
           LET reads == [k \in 1..Min(t.cut + 1, Len(t.in)) |->
                           IF k <= t.cut THEN [kind |-> "cmd", cmd |-> t.in[k]]
                           ELSE [kind |-> t.end]]
               r == parseCommands(reads)
           IN [err |-> r.err,
               whole |-> ~r.err /\ r.doc.cmdNum = BDXFromFile(t.in).cmdNum]
      [] OTHER ->
           LET r == readIBImportSegments(SubSeq(BodyBytes(t.in), 1, t.cut), 0, <<>>)
           IN [err |-> r.err \/ Len(r.segments) = 0,
               whole |-> ~r.err /\ r.segments = t.in]

TruncRead ==
    /\ trunc.pc = "open"
    /\ trunc' = [trunc EXCEPT !.pc = "returned"] @@ TruncReadOf(trunc)
    /\ UNCHANGED <<codecVars, docVars, box, rt, seg, reg, conv, fh, loop, pal, flag, mcs>>

NextTrunc == TruncOpen \/ TruncRead

SpecTrunc == InitTrunc /\ [][NextTrunc]_vars

\* C21: when the stream ends in the middle of a value, FromFile, GetChunks
\* and CountNonAirBlocks return an error; none of them returns success with
\* a partially decoded result
C21_TruncatedStreamFails ==
    (trunc.pc = "returned" /\ trunc.midValue) => trunc.err

(***************************************************************************)
(* Resolution of block descriptors against the block registry              *)
(***************************************************************************)
MaxResolves == 2

\* a block name: its base, and whether it carries the "minecraft:" prefix
\* (strings.Contains(name, ":")); the empty name is BlockName(FALSE, "")
BlockName(ns, base) == [ns |-> ns, base |-> base]

prefixed(name) == [name EXCEPT !.ns = TRUE]

\* a registry function returns (id, found); a failed lookup returns id 0
Lookup(f, k) ==
    IF k \in DOMAIN f THEN [id |-> f[k], found |-> TRUE] ELSE [id |-> 0, found |-> FALSE]

\* "x, found := A; if !found { x, found = B }"
OrElse(a, b) == IF a.found THEN a ELSE b

\* blocks.RuntimeIDToState, then block.StateToRuntimeID on what it found;
\* this variant falls back to air
NormalizeToAir(R, runtimeID) ==
    LET st == Lookup(R.state, runtimeID)
        back == Lookup(R.world, st.id)
    IN IF ~st.found THEN AirRuntimeID
       ELSE IF back.found THEN back.id ELSE AirRuntimeID

\* blocks.RuntimeIDToState, then block.StateToRuntimeID on what it found
Normalize(R, runtimeID) ==
    LET st == Lookup(R.state, runtimeID)
        back == Lookup(R.world, st.id)
    IN IF ~st.found THEN UnknownBlockRuntimeID
       ELSE IF back.found THEN back.id ELSE UnknownBlockRuntimeID

Answer(id, cache, consulted) == [id |-> id, cache |-> cache, consulted |-> consulted]

\* RunAway.runtimeIDFor; the cache key "%s|%d" determines (name, aux)
RunAwayRuntimeIDFor(R, cache, name, aux) ==
    LET cacheKey == <<name, aux>>
        a == OrElse(Lookup(R.legacy, <<name, aux % 65536>>), Lookup(R.str, name))
        b == IF ~a.found /\ ~name.ns
             THEN OrElse(Lookup(R.legacy, <<prefixed(name), aux % 65536>>),
                         Lookup(R.str, prefixed(name)))
             ELSE a
        runtimeID == Normalize(R, IF b.found THEN b.id ELSE UnknownBlockRuntimeID)
    IN IF cacheKey \in DOMAIN cache THEN Answer(cache[cacheKey], cache, FALSE)
       ELSE Answer(runtimeID, cache @@ (cacheKey :> runtimeID), TRUE)

\* KBDX.runtimeIDFor: the empty name is cached without a lookup, and only an
\* id that was found is normalized
KBDXRuntimeIDFor(R, cache, name, aux) ==
    LET cacheKey == <<name, aux>>
        a == OrElse(Lookup(R.legacy, <<name, aux % 65536>>), Lookup(R.str, name))
        b == IF ~a.found /\ ~name.ns
             THEN OrElse(Lookup(R.legacy, <<prefixed(name), aux % 65536>>),
                         Lookup(R.str, prefixed(name)))
             ELSE a
        runtimeID == IF b.found THEN Normalize(R, b.id) ELSE UnknownBlockRuntimeID
    IN IF cacheKey \in DOMAIN cache THEN Answer(cache[cacheKey], cache, FALSE)
       ELSE IF name.base = ""
       THEN Answer(UnknownBlockRuntimeID, cache @@ (cacheKey :> UnknownBlockRuntimeID), FALSE)
       ELSE Answer(runtimeID, cache @@ (cacheKey :> runtimeID), TRUE)

\* QingXuV1.runtimeIDFor (names without '.', which reverseSplit leaves
\* alone): the empty name is answered before the cache is looked at
QingXuV1RuntimeIDFor(R, cache, name) ==
    LET a == OrElse(Lookup(R.str, name), Lookup(R.legacy, <<name, 0>>))
        b == IF ~a.found /\ ~name.ns
             THEN OrElse(Lookup(R.str, prefixed(name)),
                         Lookup(R.legacy, <<prefixed(name), 0>>))
             ELSE a
        runtimeID == Normalize(R, IF b.found THEN b.id ELSE UnknownBlockRuntimeID)
    IN IF name.base = "" THEN Answer(UnknownBlockRuntimeID, cache, FALSE)
       ELSE IF name \in DOMAIN cache THEN Answer(cache[name], cache, FALSE)
       ELSE Answer(runtimeID, cache @@ (name :> runtimeID), TRUE)

\* IBImport.runtimeIDFor: properties is 0 for no properties; the key is the
\* name alone without properties and name|k=v,... with them
IBImportRuntimeIDFor(R, cache, name, properties) ==
    LET key == <<name, properties>>
        a == IF properties # 0
             THEN OrElse(Lookup(R.nameState, <<name, properties>>), Lookup(R.str, name))
             ELSE OrElse(Lookup(R.str, name), Lookup(R.legacy, <<name, 0>>))
        runtimeID == Normalize(R, IF name.base # "" /\ a.found THEN a.id
                                  ELSE UnknownBlockRuntimeID)
    IN IF key \in DOMAIN cache THEN Answer(cache[key], cache, FALSE)
       ELSE Answer(runtimeID, cache @@ (key :> runtimeID), TRUE)

\* runtimeIDForBlock of MCFunction: a package function, it has no cache
runtimeIDForBlock(R, cache, name, states) ==
    LET rtid == Lookup(R.nameState, <<prefixed(name), states>>)
    IN Answer(IF rtid.found THEN Normalize(R, rtid.id) ELSE UnknownBlockRuntimeID,
              cache, TRUE)

ResolveOf(variant, R, cache, d) ==
    CASE variant = "RunAway" -> RunAwayRuntimeIDFor(R, cache, d.name, d.aux)
      [] variant = "KBDX" -> KBDXRuntimeIDFor(R, cache, d.name, d.aux)
      [] variant = "QingXuV1" -> QingXuV1RuntimeIDFor(R, cache, d.name)
      [] variant = "IBImport" -> IBImportRuntimeIDFor(R, cache, d.name, d.aux)
      [] OTHER -> runtimeIDForBlock(R, cache, d.name, d.aux)

\* the part of a descriptor the variant resolves by
KeyOf(variant, d) == IF variant = "QingXuV1" THEN d.name ELSE <<d.name, d.aux>>

\* ---- registries: which names the legacy table and the name table know,
\* which runtime ids have a state, and which states the world knows
PlainStone == BlockName(FALSE, "stone")
NsStone == BlockName(TRUE, "stone")

StateOfID(id) ==
    IF id = UnknownBlockRuntimeID THEN "unknown" ELSE IF id = Stone THEN "stone0" ELSE "stone1"

IDOfState(s) ==
    IF s = "unknown" THEN UnknownBlockRuntimeID ELSE IF s = "stone0" THEN Stone ELSE Stone + 1

Registry(L, S, K, W) ==
    [legacy |-> [k \in L \X {0, 1} |-> Stone + k[2]],
     str |-> [n \in S |-> Stone],
     nameState |-> [k \in S \X {0, 1} |-> Stone + k[2]],
     state |-> [id \in K |-> StateOfID(id)],
     world |-> [s \in W |-> IDOfState(s)]]

Registries ==
    {Registry(L, S, K, W) :
       L \in {{}, {NsStone}, {PlainStone, NsStone}},
       S \in {{}, {NsStone}},
       K \in {{Stone, Stone + 1}, {Stone, Stone + 1, UnknownBlockRuntimeID}},
       W \in {{"stone0", "stone1", "unknown"}, {"stone0", "unknown"}}}

Descriptors ==
    [name : {PlainStone, NsStone, BlockName(FALSE, "nosuch"), BlockName(FALSE, "")},
     aux : {0, 1}]

PaletteVariants == {"RunAway", "KBDX", "QingXuV1", "IBImport", "MCFunction"}

InitPalette ==
    /\ IdleOutside({"pal"})
    /\ pal = [pc |-> "new"]

\* populate makes the cache of the document
PaletteMake ==
    /\ pal.pc = "new"
    /\ \E variant \in PaletteVariants, R \in Registries :
          pal' = [pc |-> "parsing", variant |-> variant, R |-> R,
                  paletteCache |-> <<>>, out |-> <<>>]
    /\ UNCHANGED <<codecVars, docVars, box, rt, seg, reg, conv, fh, loop, trunc, flag, mcs>>

\* one record of the file is resolved
Resolve ==
    /\ pal.pc = "parsing"
    /\ Len(pal.out) < MaxResolves
    /\ \E d \in Descriptors :
          LET a == ResolveOf(pal.variant, pal.R, pal.paletteCache, d)
          IN pal' = [pal EXCEPT !.paletteCache = a.cache,
                                !.out = Append(@, [d |-> d, id |-> a.id,
                                                   consulted |-> a.consulted])]
    /\ UNCHANGED <<codecVars, docVars, box, rt, seg, reg, conv, fh, loop, trunc, flag, mcs>>

NextPalette == PaletteMake \/ Resolve

SpecPalette == InitPalette /\ [][NextPalette]_vars

\* no lookup of the registry knows the name, with or without the prefix
Unresolvable(R, d) ==
    \A n \in {d.name, prefixed(d.name)} :
       /\ n \notin DOMAIN R.str
       /\ \A x \in {0, 1} : <<n, x>> \notin DOMAIN R.legacy \cup DOMAIN R.nameState

C23_MemoizedResolution ==
    pal.pc = "parsing" =>
       \A j, k \in 1..Len(pal.out) :
          (j < k /\ pal.out[j].d = pal.out[k].d) =>
             /\ pal.out[k].id = pal.out[j].id
             /\ ~pal.out[k].consulted

(***************************************************************************)
(* Files without block records                                             *)
(***************************************************************************)
\* the block records FromFile took from the file of a parsed document
BlockRecords(d) ==
    CASE d.variant = "BDX" ->
           Cardinality({k \in 1..Min(d.cmdNum, Len(d.cmds)) : d.cmds[k].op = "PlaceBlock"})
      [] d.variant \in {"RunAway", "KBDX", "MCFunction"} -> Len(d.records)
      [] OTHER -> Volume(d.originalSize)

\* C24: FromFile fails on a file that yields no usable block record, so a
\* parsed document of any variant holds at least one
C24_NoRecordsFails ==
    doc.pc = "parsed" => BlockRecords(doc) > 0

(***************************************************************************)
(* FromMCWorld: the size of the region in the integer types of the code    *)
(***************************************************************************)
MaxInt32 == 2147483647
MinInt32 == -2147483647 - 1

\* a + b and a - b on int32 values, wrapping as the machine does
Add32(a, b) ==
    IF a >= 0 /\ b >= 0 /\ a > MaxInt32 - b THEN (a + MinInt32) + (b + MinInt32)
    ELSE IF a < 0 /\ b < 0 /\ (a + MaxInt32 + 1) + b < 0
    THEN (a + MaxInt32 + 1) + (b + MaxInt32 + 1)
    ELSE a + b

Sub32(a, b) == IF b = MinInt32 THEN Add32(Add32(a, MaxInt32), 1) ELSE Add32(a, -b)

\* a * n on int32 for a small n >= 0
RECURSIVE Mul32(_, _)
Mul32(a, n) == IF n = 0 THEN 0 ELSE Add32(Mul32(a, n - 1), a)

\* width, height, length as the variant computes them from the normalized
\* corners: Litematic converts the int32 difference to int before adding 1,
\* Schematic and MCStructure stay in int32 and also form the volume (the
\* int 2^31 of Litematic is written MaxInt32: only its sign is looked at)
RegionSize(variant, lo, hi) ==
    LET d == [a \in 1..3 |-> Sub32(hi[a], lo[a])]
        s == IF variant = "Litematic"
             THEN [a \in 1..3 |-> IF d[a] = MaxInt32 THEN d[a] ELSE d[a] + 1]
             ELSE [a \in 1..3 |-> Add32(d[a], 1)]
    IN [Width |-> s[1], Height |-> s[2], Length |-> s[3],
        volume |-> IF variant = "Litematic" THEN 1
                   ELSE Mul32(Mul32(s[1], s[2]), s[3])]

\* a / d on int32 for d > 0, the smallest int32 included
Div32(a, d) == IF a = MinInt32 THEN GoDiv(a + d, d) - 1 ELSE GoDiv(a, d)

\* the range of sub-chunks on one axis, in int32
SubChunkRange32(lo, hi) ==
    <<Div32(Sub32(lo, mod(lo, 16)), 16), Div32(Add32(Add32(hi, mod(hi, 16)), 15), 16)>>

CornerVariants == {"Litematic", "Schematic", "MCStructure"}
CornerXs == {MinInt32, -17, 0, 15, MaxInt32}
CornerYs == {0, 1, 2}

InitCorners ==
    /\ IdleOutside({"reg"})
    /\ \E variant \in CornerVariants, x1, x2 \in CornerXs, y1, y2 \in CornerYs :
          reg = [pc |-> "called", variant |-> variant,
                 point1 |-> <<x1, y1, 0>>, point2 |-> <<x2, y2, 0>>,
                 document |-> [size |-> SizeOf(1, 1, 1), offsetPos |-> OffsetOf(0, 0, 0)],
                 target |-> <<>>, calls |-> <<>>]

\* the corners are normalized and the size is formed; Litematic returns an
\* error for a size that is not positive, Schematic and MCStructure have no
\* such check
CornersSize ==
    /\ reg.pc = "called"
    /\ LET lo == startBlockPos(reg.point1, reg.point2)
           hi == endBlockPos(reg.point1, reg.point2)
           size == RegionSize(reg.variant, lo, hi)
       IN IF reg.variant = "Litematic"
             /\ (size.Width <= 0 \/ size.Height <= 0 \/ size.Length <= 0)
          THEN reg' = [reg EXCEPT !.pc = "returned"]
                         @@ [err |-> TRUE, lo |-> lo, hi |-> hi, size |-> size]
          ELSE reg' = [reg EXCEPT !.pc = "sized"]
                         @@ [err |-> FALSE, lo |-> lo, hi |-> hi, size |-> size]
    /\ UNCHANGED <<codecVars, docVars, box, rt, seg, conv, fh, loop, trunc, pal, flag, mcs>>

\* the sub-chunk ranges, startCallback, and the first tags of the target
CornersStart ==
    /\ reg.pc = "sized"
    /\ LET ry == SubChunkRange32(reg.lo[2], reg.hi[2])
           rx == SubChunkRange32(reg.lo[1], reg.hi[1])
           n == IF reg.variant = "Schematic" THEN (ry[2] - ry[1] + 1) * 2
                ELSE IF reg.variant = "MCStructure" THEN Sub32(rx[2], rx[1]) + 1
                ELSE ry[2] - ry[1] + 1
       IN reg' = [reg EXCEPT !.pc = "started",
                             !.calls = <<[f |-> "onStart", n |-> n]>>,
                             !.target = <<"header">>]
    /\ UNCHANGED <<codecVars, docVars, box, rt, seg, conv, fh, loop, trunc, pal, flag, mcs>>

NextCorners == CornersSize \/ CornersStart

SpecCorners == InitCorners /\ [][NextCorners]_vars

NonPositive(size) ==
    size.Width <= 0 \/ size.Height <= 0 \/ size.Length <= 0 \/ size.volume <= 0

\* C25: FromMCWorld on a region whose size is not positive returns an error
\* before it starts, and the document is as it was
C25_NonPositiveVolumeFails ==
    /\ (reg.pc \in {"sized", "started"}) => ~NonPositive(reg.size)
    /\ reg.pc = "returned" =>
          /\ reg.err
          /\ reg.document = [size |-> SizeOf(1, 1, 1), offsetPos |-> OffsetOf(0, 0, 0)]
          /\ reg.calls = <<>> /\ reg.target = <<>>

(***************************************************************************)
(* ibImportBoolish: a flag of an IBImport command in any of its spellings  *)
(***************************************************************************)
\* a string is the sequence of its characters
Quote == "\""

RECURSIVE TrimLeft(_)
TrimLeft(s) == IF Len(s) > 0 /\ s[1] = " " THEN TrimLeft(Tail(s)) ELSE s

RECURSIVE TrimRight(_)
TrimRight(s) ==
    IF Len(s) > 0 /\ s[Len(s)] = " " THEN TrimRight(SubSeq(s, 1, Len(s) - 1)) ELSE s

\* strings.TrimSpace
TrimSpace(s) == TrimRight(TrimLeft(s))

\* strconv.Unquote on text without escapes: a double-quoted string gives
\* what is between the quotes, anything else is an error
Unquote(s) ==
    IF Len(s) >= 2 /\ s[1] = Quote /\ s[Len(s)] = Quote
       /\ \A i \in 2..(Len(s) - 1) : s[i] # Quote
    THEN [s |-> SubSeq(s, 2, Len(s) - 1), err |-> FALSE]
    ELSE [s |-> <<>>, err |-> TRUE]

WordTrue == <<"t", "r", "u", "e">>
WordFalse == <<"f", "a", "l", "s", "e">>
WordNull == <<"n", "u", "l", "l">>

\* a decoder that knows the bare spellings only
UnmarshalJSONBare(b, data) ==
    LET value == TrimSpace(data)
    IN IF value = <<>> \/ value = WordNull THEN [b |-> FALSE, err |-> FALSE]
       ELSE IF value \in {WordTrue, <<"1">>} THEN [b |-> TRUE, err |-> FALSE]
       ELSE IF value \in {WordFalse, <<"0">>} THEN [b |-> FALSE, err |-> FALSE]
       ELSE [b |-> b, err |-> TRUE]

\* ibImportBoolish.UnmarshalJSON: the new value of the flag b, and the error
UnmarshalJSON(b, data) ==
    LET value == TrimSpace(data)
        unquoted == Unquote(value)
    IN IF value = <<>> \/ value = WordNull THEN [b |-> FALSE, err |-> FALSE]
       ELSE IF value \in {WordTrue, <<"1">>} THEN [b |-> TRUE, err |-> FALSE]
       ELSE IF value \in {WordFalse, <<"0">>} THEN [b |-> FALSE, err |-> FALSE]
       ELSE IF ~unquoted.err /\ TrimSpace(unquoted.s) \in {WordTrue, <<"1">>}
       THEN [b |-> TRUE, err |-> FALSE]
       ELSE IF ~unquoted.err /\ TrimSpace(unquoted.s) \in {WordFalse, <<"0">>}
       THEN [b |-> FALSE, err |-> FALSE]
       ELSE [b |-> b, err |-> TRUE]

\* ---- the JSON values handed to the decoder
BoolWords ==
    {WordTrue, WordFalse, <<"0">>, <<"1">>, WordNull, <<"2">>, <<"T", "r", "u", "e">>,
     <<"0", "1">>, <<"y", "e", "s">>, <<"o", "n">>, <<"-", "1">>, <<>>}

Paddings == {<<>>, <<" ">>}

\* a word bare, or in double quotes with blanks around it
BoolTexts ==
    (BoolWords \ {<<>>})
    \cup {<<Quote>> \o l \o wd \o r \o <<Quote>> : wd \in BoolWords, l \in Paddings, r \in Paddings}

InitFlag ==
    /\ IdleOutside({"flag"})
    /\ \E b \in BOOLEAN : flag = [pc |-> "new", b |-> b]

\* json.Unmarshal calls UnmarshalJSON with the text of the value
FlagUnmarshal ==
    /\ flag.pc \in {"new", "decoded"}
    /\ \E data \in BoolTexts :
          LET r == UnmarshalJSON(flag.b, data)
          IN flag' = [pc |-> "decoded", data |-> data, b |-> r.b, err |-> r.err,
                      was |-> flag.b]
    /\ UNCHANGED <<codecVars, docVars, box, rt, seg, reg, conv, fh, loop, trunc, pal, mcs>>

NextFlag == FlagUnmarshal

SpecFlag == InitFlag /\ [][NextFlag]_vars

Quoted(wd) == <<Quote>> \o wd \o <<Quote>>

\* C26: 0, false, "0" and "false" decode to false and 1, true, "1" and
\* "true" decode to true, all without error
C26_BoolishSpellings ==
    flag.pc = "decoded" =>
       /\ flag.data \in {<<"0">>, WordFalse, Quoted(<<"0">>), Quoted(WordFalse)} =>
             (~flag.err /\ flag.b = FALSE)
       /\ flag.data \in {<<"1">>, WordTrue, Quoted(<<"1">>), Quoted(WordTrue)} =>
             (~flag.err /\ flag.b = TRUE)

\* the quoted spelling "true" was decoded into a flag that was false
C26_Witness ==
    /\ flag.pc = "decoded"
    /\ flag.data = Quoted(WordTrue)
    /\ flag.was = FALSE
    /\ flag.b = TRUE

\* C27: the index at which Schematic.FromMCWorld writes the block of local
\* position (x,y,z) is (y*length+z)*width+x, GetChunks rebuilds (x,y,z) from
\* the same index, and the reader counts from the first element of the
\* stored array: the bytes it decodes for an index are the bytes written there
C27_FlattenedIndexAgrees ==
    rt.pc = "decoded" =>
        LET startPos == startBlockPos(rt.point1, rt.point2)
            endPos == endBlockPos(rt.point1, rt.point2)
            width == endPos[1] - startPos[1] + 1
            length == endPos[3] - startPos[3] + 1
            tags == SchematicFromMCWorld(rt.world, rt.point1, rt.point2)
            cells == {c \in WorldCells : \A a \in 1..3 : startPos[a] <= c[a] /\ c[a] <= endPos[a]}
        IN /\ ~rt.chunks.err
           /\ \A c \in cells :
                 LET x == c[1] - startPos[1]
                     y == c[2] - startPos[2]
                     z == c[3] - startPos[3]
                     index == (y * length + z) * width + x
                 IN /\ index \in DOMAIN rt.chunks.vals
                    /\ rt.chunks.vals[index] = tags[6].value[index + 1]
                    /\ rt.chunks.dvals[index] = tags[7].value[index + 1]
                    /\ \A k \in 1..Len(rt.chunks.placed) :
                          rt.chunks.placed[k].index = index =>
                             rt.chunks.placed[k].world = <<x, y, z>>

\* the blocks the returned chunks hold: of the placements at one place of one
\* chunk the last one stays
ChunkContent(r) ==
    {[chunk |-> r.placed[k].chunk, x |-> r.placed[k].x, y |-> r.placed[k].y,
      z |-> r.placed[k].z, id |-> r.placed[k].id] :
       k \in {i \in 1..Len(r.placed) :
                \A j \in (i + 1)..Len(r.placed) :
                   \/ r.placed[j].chunk # r.placed[i].chunk
                   \/ r.placed[j].x # r.placed[i].x
                   \/ r.placed[j].y # r.placed[i].y
                   \/ r.placed[j].z # r.placed[i].z}}

\* C29: GetChunks asked with a position list that holds a chunk position more
\* than once returns what it returns for the list without the repetitions:
\* the same outcome, the same chunks, the same blocks at the same places
C29_RepeatedPositionsIgnored ==
    (doc.pc = "parsed" /\ res # Idle /\ ~NoRepeat(req)) =>
        LET once == GetChunksOf(doc, SetToSeq(Range(req)))
        IN /\ res.err = once.err
           /\ res.keys = once.keys
           /\ ChunkContent(res) = ChunkContent(once)

(***************************************************************************)
(* MCStructure.ToMCWorld: the blocks and the block entities it saves       *)
(***************************************************************************)
\* Width, Height, Length: one and two chunks along X and along Z, and an
\* empty structure
WriteDims == {<<0, 1, 1>>, <<1, 1, 1>>, <<2, 2, 2>>, <<17, 1, 2>>, <<2, 1, 17>>}

StartSubChunks == {<<0, 0, 0>>, <<2, -1, 3>>}

\* BlockNBT: the indices that carry block entity data
BlockNBTSets(volume) ==
    {S \in {{}, {0}, {volume - 1}, {0, volume - 1}} : S \subseteq 0..(volume - 1)}

\* every order in which a range over a Go map may visit the elements of S
Orders(S) == {s \in [1..Cardinality(S) -> S] : Range(s) = S}

InitWrite ==
    /\ IdleOutside({"mcs"})
    /\ \E dm \in WriteDims, first \in {0, 2}, palette \in MCStructurePalettes,
          s \in StartSubChunks :
          \E nbt \in BlockNBTSets(dm[1] * dm[2] * dm[3]) :
             mcs = [pc |-> "parsed",
                   m |-> MCStructureFromFile(dm[1], dm[2], dm[3],
                            [i \in 1..(dm[1] * dm[2] * dm[3]) |->
                               Pattern(dm[1] * dm[2] * dm[3], 4, first, 1)[i] - 1],
                            palette),
                   BlockNBT |-> nbt, startSubChunkPos |-> s,
                   rd |-> NewReader(<<>>), chunkX |-> 0, started |-> -1, progress |-> 0,
                   blocks |-> {}, subChunks |-> {}, queries |-> <<>>, saves |-> <<>>,
                   err |-> FALSE, chunks |-> Idle]

\* ToMCWorld up to its first loop: nothing but startCallback(0) for an empty
\* structure; otherwise the element type and the length of block_indices[0]
\* are consumed and startCallback gets the number of chunks along X
WriteOpen ==
    /\ mcs.pc = "parsed"
    /\ LET s0 == CopyN(NewReader(mcs.m.stream), mcs.m.blockIndexTagOffset)
           ty == ReadByte(s0.rd)
           ln == ReadInt32LE(ty.rd)
       IN IF Volume(mcs.m.originalSize) = 0
          THEN mcs' = [mcs EXCEPT !.pc = "returned", !.started = 0]
          ELSE IF s0.err \/ ty.err \/ ty.b # 3 \/ ln.err
          THEN mcs' = [mcs EXCEPT !.pc = "returned", !.err = TRUE]
          ELSE mcs' = [mcs EXCEPT !.pc = "blocks", !.rd = ln.rd,
                         !.started = LayerCount(mcs.m.originalSize.Width)]
    /\ UNCHANGED <<codecVars, docVars, box, rt, seg, reg, conv, fh, loop, trunc, pal, flag>>

\* the blocks of one column of chunks: n entries read in the order localX, y,
\* z; an index the palette does not hold yields the zero value and ok false
RECURSIVE ColumnBlocks(_, _, _, _, _, _)
ColumnBlocks(m, rd, chunkX, k, n, acc) ==
    IF k >= n THEN [err |-> FALSE, rd |-> rd, blocks |-> acc]
    ELSE
      LET rv == ReadInt32LE(rd)
          blockIndex == rv.v
          ok == blockIndex \in DOMAIN m.palette
          runtimeID == IF ok THEN m.palette[blockIndex] ELSE 0
          localX == k \div (m.originalSize.Height * m.originalSize.Length)
          y == (k \div m.originalSize.Length) % m.originalSize.Height
          z == k % m.originalSize.Length
      IN IF rv.err THEN [err |-> TRUE, rd |-> rv.rd, blocks |-> acc]
         ELSE ColumnBlocks(m, rv.rd, chunkX, k + 1, n,
                IF runtimeID = AirRuntimeID THEN acc
                ELSE acc \cup {[pos |-> <<chunkX * ChunkSide + localX, y, z>>,
                                subChunk |-> <<chunkX, y \div ChunkSide, z \div ChunkSide>>,
                                local |-> <<localX, y % ChunkSide, z % ChunkSide>>,
                                id |-> IF ok THEN runtimeID ELSE UnknownBlockRuntimeID]})

\* one iteration of the first loop: the blocks of column chunkX are read into
\* sub-chunks, the sub-chunks that got a block are saved and a goroutine is
\* started for progressCallback; a failed read or save returns the error
WriteColumn ==
    /\ mcs.pc = "blocks"
    /\ LET chunkXNum == LayerCount(mcs.m.originalSize.Width)
           currentSubChunkWidth == Min(16, mcs.m.originalSize.Width - mcs.chunkX * 16)
           col == ColumnBlocks(mcs.m, mcs.rd, mcs.chunkX, 0,
                               currentSubChunkWidth * mcs.m.originalSize.Height
                                 * mcs.m.originalSize.Length, {})
       IN \E saved \in BOOLEAN :
             /\ ~saved => col.blocks # {}
             /\ IF col.err \/ ~saved
                THEN mcs' = [mcs EXCEPT !.pc = "returned", !.err = TRUE, !.rd = col.rd]
                ELSE mcs' = [mcs EXCEPT
                              !.rd = col.rd,
                              !.blocks = @ \cup col.blocks,
                              !.subChunks = @ \cup
                                 {<<b.subChunk[1] + mcs.startSubChunkPos[1],
                                    b.subChunk[2] + mcs.startSubChunkPos[2],
                                    b.subChunk[3] + mcs.startSubChunkPos[3]>> : b \in col.blocks},
                              !.progress = @ + 1,
                              !.chunkX = IF mcs.chunkX + 1 < chunkXNum THEN mcs.chunkX + 1 ELSE 0,
                              !.pc = IF mcs.chunkX + 1 < chunkXNum THEN "blocks" ELSE "nbt"]
    /\ UNCHANGED <<codecVars, docVars, box, rt, seg, reg, conv, fh, loop, trunc, pal, flag>>

\* GetChunksNBT: a map with one entry for every position of posList, filled
\* with the block entities whose chunk is among them; the local Y is the
\* world Y shifted by 64, as GetChunks shifts it
MCStructureGetChunksNBT(m, BlockNBT, posList) ==
    [keys |-> Range(posList),
     entries |->
        {e \in {LET layer == m.originalSize.Height * m.originalSize.Length
                    x == GoDiv(index, layer)
                    y == GoDiv(GoRem(index, layer), m.originalSize.Length)
                    z == GoRem(GoRem(index, layer), m.originalSize.Length)
                    newX == x + m.offsetPos.X
                    newY == y + m.offsetPos.Y
                    newZ == z + m.offsetPos.Z
                    chunkX == GoDiv(newX, 16)
                    chunkZ == GoDiv(newZ, 16)
                IN [chunk |-> <<chunkX, chunkZ>>,
                    pos |-> <<newX - chunkX * 16, newY - YShift, newZ - chunkZ * 16>>,
                    index |-> index] : index \in BlockNBT} :
           e.chunk \in Range(posList)}]

\* posList of one iteration of the second loop: make([]ChunkPos, chunkZNum)
\* has chunkZNum elements, all {0, 0}, and the positions of the column are
\* appended to them
ColumnPosList(chunkX, chunkZNum) ==
    [i \in 1..chunkZNum |-> <<0, 0>>] \o [i \in 1..chunkZNum |-> <<chunkX, i - 1>>]

\* one iteration of the second loop: the block entities of the queried chunks
\* are fetched and SaveNBT is called for every chunk that has some, in the
\* order the map yields them
WriteNBT ==
    /\ mcs.pc = "nbt"
    /\ LET chunkXNum == LayerCount(mcs.m.originalSize.Width)
           chunkZNum == LayerCount(mcs.m.originalSize.Length)
           posList == ColumnPosList(mcs.chunkX, chunkZNum)
           chunksNBT == MCStructureGetChunksNBT(mcs.m, mcs.BlockNBT, posList)
           withList == {cpos \in chunksNBT.keys :
                          \E e \in chunksNBT.entries : e.chunk = cpos}
       IN \E order \in Orders(withList), saved \in BOOLEAN :
             /\ ~saved => withList # {}
             /\ IF ~saved
                THEN mcs' = [mcs EXCEPT !.pc = "returned", !.err = TRUE,
                               !.queries = Append(@, posList)]
                ELSE mcs' = [mcs EXCEPT
                              !.queries = Append(@, posList),
                              !.saves = @ \o
                                 [i \in 1..Len(order) |->
                                    [cpos |-> order[i],
                                     chunk |-> <<order[i][1] + mcs.startSubChunkPos[1],
                                                 order[i][2] + mcs.startSubChunkPos[3]>>,
                                     list |-> {e.index : e \in {f \in chunksNBT.entries :
                                                                  f.chunk = order[i]}}]],
                              !.chunkX = @ + 1,
                              !.pc = IF mcs.chunkX + 1 < chunkXNum THEN "nbt" ELSE "returned"]
    /\ UNCHANGED <<codecVars, docVars, box, rt, seg, reg, conv, fh, loop, trunc, pal, flag>>

\* GetChunks of the converted document for every chunk it covers
WriteGetChunks ==
    /\ mcs.pc = "returned"
    /\ mcs.chunks = Idle
    /\ mcs' = [mcs EXCEPT !.chunks = MCStructureGetChunks(mcs.m, SetToSeq(NearChunks(mcs.m)))]
    /\ UNCHANGED <<codecVars, docVars, box, rt, seg, reg, conv, fh, loop, trunc, pal, flag>>

NextWrite == WriteOpen \/ WriteColumn \/ WriteNBT \/ WriteGetChunks

SpecWrite == InitWrite /\ [][NextWrite]_vars

\* the blocks GetChunks put into the chunks, at their positions in the structure
ChunkBlocks(r) ==
    {[pos |-> r.placed[k].world, id |-> r.placed[k].id] :
       k \in {j \in 1..Len(r.placed) : r.placed[j].id # AirRuntimeID}}

WorldBlocks == {[pos |-> b.pos, id |-> b.id] : b \in mcs.blocks}

Converted == mcs.pc = "returned" /\ ~mcs.err /\ Volume(mcs.m.originalSize) > 0

\* C28: at zero offset the blocks ToMCWorld writes are the blocks, at the
\* same positions of the structure, that GetChunks returns for all the chunks
\* the structure covers, entries of index -1 and entries whose index the
\* palette does not hold included
C28_ToMCWorldMatchesGetChunks ==
    (Converted /\ mcs.chunks # Idle /\ ~mcs.chunks.err) => WorldBlocks = ChunkBlocks(mcs.chunks)

\* the chunks of the structure that hold a block entity
ChunksWithNBT ==
    {e.chunk : e \in MCStructureGetChunksNBT(mcs.m, mcs.BlockNBT,
                                             SetToSeq(NearChunks(mcs.m))).entries}

\* C30: a conversion that has returned without error has called SaveNBT
\* exactly once for every chunk of the structure that carries block entities
\* and for no other chunk, and the position list queried in the iteration of
\* column chunkX holds chunks of that column only
C30_MetadataSavedOncePerChunk ==
    Converted =>
        /\ \A c \in NearChunks(mcs.m) :
              Cardinality({i \in 1..Len(mcs.saves) : mcs.saves[i].cpos = c})
                 = IF c \in ChunksWithNBT THEN 1 ELSE 0
        /\ \A i \in 1..Len(mcs.saves) : mcs.saves[i].cpos \in NearChunks(mcs.m)
        /\ Len(mcs.queries) = LayerCount(mcs.m.originalSize.Width)
        /\ \A i \in 1..Len(mcs.queries) :
              \A k \in 1..Len(mcs.queries[i]) : mcs.queries[i][k][1] = i - 1
====
